---- MODULE Spec2Model ----
(***************************************************************************)
(* SideQuest reader: chapter cache (cacheManager), book service, reading   *)
(* view with fallback to alternative sources, and the source manager.      *)
(* Each subsystem has its own specification over the shared variables.     *)
(***************************************************************************)
EXTENDS Integers, Sequences, FiniteSets, TLC

(***************************************************************************)
(* Bounds of the exploration.                                              *)
(***************************************************************************)
\* cache entries already persisted in localStorage when the session starts
NumFill == 81
\* cache calls explored after the start of a session
MaxOps == 3
\* URLs of the re-caching workload (SpecRecache)
NumRecache == 103
\* cache calls explored when every storage write may throw (SpecCacheFaults)
MaxFaultOps == 2

(***************************************************************************)
(* cacheManager: constants.                                                *)
(***************************************************************************)
MAX_CACHE_SIZE == 10 * 1024 * 1024
MAX_CHAPTER_SIZE == 100 * 1024
\* CLEANUP_THRESHOLD = 0.8, the cleanup targets 0.5 and 0.3: kept as tenths,
\* the products MAX_CACHE_SIZE * 0.8 / 0.5 / 0.3 are whole numbers of bytes.
CLEANUP_THRESHOLD_TENTHS == 8
CLEANUP_TARGET_TENTHS == 5
QUOTA_TARGET_TENTHS == 3
CACHE_PREFIX == "cache:chapter:"

Tenths(n, t) == (n * t) \div 10

(***************************************************************************)
(* URLs.  A URL is kept as the record of its variable parts; UrlText is    *)
(* the string (UTF-16 code units) the cache manager receives:              *)
(*   https://www.biquge.example/book/<book>/<page>.html[?t=<title>]        *)
(***************************************************************************)
UrlPrefixText ==
  << 104, 116, 116, 112, 115, 58, 47, 47, 119, 119, 119, 46, 98, 105, 113,
     117, 103, 101, 46, 101, 120, 97, 109, 112, 108, 101, 47, 98, 111, 111,
     107, 47 >>

RECURSIVE Digits(_)
Digits(n) == IF n < 10 THEN << 48 + n >> ELSE Digits(n \div 10) \o << 48 + (n % 10) >>

UrlText(u) ==
  UrlPrefixText \o Digits(u.book) \o << 47 >> \o Digits(u.page)
    \o << 46, 104, 116, 109, 108 >>
    \o (IF u.title = << >> THEN << >> ELSE << 63, 116, 61 >> \o u.title)

MkUrl(b, p, t) == [book |-> b, page |-> p, title |-> t]

\* two chapters of one book, and a URL carrying a non-Latin1 title
ChapterUrlA == MkUrl(1024, 1, << >>)
ChapterUrlB == MkUrl(1024, 2, << >>)
TitledUrl == MkUrl(1024, 1, << 19977, 20307 >>)
FillerUrl(i) == MkUrl(1100 + i, 1, << >>)

(***************************************************************************)
(* getCacheKey: btoa(url).substring(0, 50), or the 32-bit string hash in   *)
(* base 36 when btoa throws (a code unit above 255).                       *)
(***************************************************************************)
B64Alphabet ==
  << 65, 66, 67, 68, 69, 70, 71, 72, 73, 74, 75, 76, 77, 78, 79, 80, 81, 82,
     83, 84, 85, 86, 87, 88, 89, 90, 97, 98, 99, 100, 101, 102, 103, 104, 105,
     106, 107, 108, 109, 110, 111, 112, 113, 114, 115, 116, 117, 118, 119,
     120, 121, 122, 48, 49, 50, 51, 52, 53, 54, 55, 56, 57, 43, 47 >>
B64Pad == 61

B64Char(sextet) == B64Alphabet[sextet + 1]

RECURSIVE btoa(_)
btoa(bytes) ==
  IF Len(bytes) = 0 THEN << >>
  ELSE IF Len(bytes) = 1 THEN
    << B64Char(bytes[1] \div 4), B64Char((bytes[1] % 4) * 16), B64Pad, B64Pad >>
  ELSE IF Len(bytes) = 2 THEN
    << B64Char(bytes[1] \div 4),
       B64Char((bytes[1] % 4) * 16 + bytes[2] \div 16),
       B64Char((bytes[2] % 16) * 4), B64Pad >>
  ELSE
    << B64Char(bytes[1] \div 4),
       B64Char((bytes[1] % 4) * 16 + bytes[2] \div 16),
       B64Char((bytes[2] % 16) * 4 + bytes[3] \div 64),
       B64Char(bytes[3] % 64) >>
      \o btoa(SubSeq(bytes, 4, Len(bytes)))

btoaThrows(text) == \E i \in 1..Len(text) : text[i] > 255

Substring(s, n) == SubSeq(s, 1, IF Len(s) < n THEN Len(s) ELSE n)

\* The hash is a 32-bit integer; it is kept as its two 16-bit halves
\* << hi, lo >> (two's complement), so that no intermediate value leaves the
\* range of the checker's integers.
Half == 65536

\* ((hash << 5) - hash) + code, then hash & hash: 31 * hash + code modulo 2^32
HashStep(h, code) ==
  LET lo == 31 * h[2] + code
      hi == 31 * h[1] + (lo \div Half)
  IN << hi % Half, lo % Half >>

\* (hash[1] is never negative: the test makes the evaluator compute the
\* accumulator at each step instead of nesting the steps)
RECURSIVE StringHash(_, _, _)
StringHash(text, i, hash) ==
  IF i > Len(text) \/ hash[1] < 0 THEN hash
  ELSE StringHash(text, i + 1, HashStep(hash, text[i]))

\* Math.abs of the signed value
Abs32(h) ==
  IF h[1] < Half \div 2 THEN h
  ELSE << (Half - 1 - h[1] + (IF h[2] = 0 THEN 1 ELSE 0)) % Half, (Half - h[2]) % Half >>

Base36Digit(d) == IF d < 10 THEN 48 + d ELSE 97 + (d - 10)

\* Number.prototype.toString(36)
RECURSIVE ToString36(_)
ToString36(h) ==
  LET t == (h[1] % 36) * Half + h[2]
      q == << h[1] \div 36, t \div 36 >>
  IN IF q = << 0, 0 >> THEN << Base36Digit(t % 36) >>
     ELSE ToString36(q) \o << Base36Digit(t % 36) >>

KeyPrefixLen == 50

getCacheKey(url) ==
  << CACHE_PREFIX >> \o
    (IF btoaThrows(UrlText(url))
       THEN ToString36(Abs32(StringHash(UrlText(url), 1, << 0, 0 >>)))
       ELSE Substring(btoa(UrlText(url)), KeyPrefixLen))

(***************************************************************************)
(* Chapter contents: a content is a string of `len` ASCII bytes, told      *)
(* apart by `tag`.  new Blob([content]).size is its byte length.           *)
(***************************************************************************)
MkContent(t, n) == [tag |-> t, len |-> n]
ContentA == MkContent("A", 1024)
ContentTiny == MkContent("T", 1)
ContentMax == MkContent("M", MAX_CHAPTER_SIZE)
ContentOver == MkContent("O", MAX_CHAPTER_SIZE + 1)
NoContent == MkContent("null", 0)

BlobSize(content) == content.len

(***************************************************************************)
(* State.                                                                  *)
(***************************************************************************)
VARIABLES
  store,        \* localStorage, chapter keys: key -> ChapterCache
  metaStore,    \* localStorage["cache:meta"]: << >> or << CacheMeta >>
  clock,        \* Date.now()
  budget,       \* calls left to explore
  accessAt,     \* history: key -> time of the last write or successful read
  cachedUnder,  \* history: url -> content of the last successful cacheContent(url, _)
  lastOp        \* history: the last cache call, what it returned and removed

cacheVars == << store, metaStore, clock, budget, accessAt, cachedUnder, lastOp >>

EmptyMap == [x \in {} |-> 0]

MapPut(f, k, v) == [x \in (DOMAIN f) \cup {k} |-> IF x = k THEN v ELSE f[x]]
MapDrop(f, ks) == [x \in (DOMAIN f) \ ks |-> f[x]]

Range(s) == {s[i] : i \in 1..Len(s)}

(***************************************************************************)
(* getMeta / saveMeta                                                      *)
(***************************************************************************)
getMeta(ms, now) ==
  IF ms = << >> THEN [urls |-> << >>, totalSize |-> 0, lastCleanup |-> now]
  ELSE ms[1]

\* metaFault: localStorage.setItem(META_KEY, ...) throws; saveMeta swallows it
saveMeta(ms, meta, metaFault) == IF metaFault THEN ms ELSE << meta >>

(***************************************************************************)
(* performLRUCleanup                                                       *)
(***************************************************************************)
\* lines 102-113: one item per url of meta.urls whose entry is in storage
ReadItems(st, urls) ==
  LET present == SelectSeq(urls, LAMBDA u : getCacheKey(u) \in DOMAIN st)
  IN [i \in 1..Len(present) |->
        LET key == getCacheKey(present[i])
        IN [url |-> present[i], key |-> key, cachedAt |-> st[key].cachedAt,
            size |-> st[key].size]] \o << >>

\* Array.prototype.sort with (a, b) => a.cachedAt - b.cachedAt: stable
RECURSIVE InsertByCachedAt(_, _)
InsertByCachedAt(sorted, item) ==
  IF sorted = << >> THEN << item >>
  ELSE IF sorted[Len(sorted)].cachedAt <= item.cachedAt THEN Append(sorted, item)
  ELSE Append(InsertByCachedAt(SubSeq(sorted, 1, Len(sorted) - 1), item),
              sorted[Len(sorted)])

\* (Len(acc) = i - 1 always: the test makes the evaluator compute the
\* accumulator at each step)
RECURSIVE SortByCachedAt(_, _, _)
SortByCachedAt(items, i, acc) ==
  IF i > Len(items) \/ Len(acc) < i - 1 THEN acc
  ELSE SortByCachedAt(items, i + 1, InsertByCachedAt(acc, items[i]))

\* lines 119-137: the eviction loop over the sorted items.  currentSize only
\* goes down, so the items it evicts are the first ones; the result is how
\* many of them it evicts.
RECURSIVE EvictLoop(_, _, _, _)
EvictLoop(items, i, currentSize, targetSize) ==
  IF i > Len(items) \/ currentSize <= targetSize THEN i - 1
  ELSE EvictLoop(items, i + 1, currentSize - items[i].size, targetSize)

\* the sum the loop subtracted from currentSize
RECURSIVE EvictedSize(_, _, _)
EvictedSize(items, i, sum) ==
  IF i = 0 \/ sum < 0 THEN sum
  ELSE EvictedSize(items, i - 1, sum + items[i].size)

\* the keys localStorage.removeItem (line 127) took out of storage, in order:
\* two urls of meta.urls may share a key, and the second removal finds nothing
RemovedKeys(cacheItems, evicted) ==
  [i \in 1..evicted |-> cacheItems[i].key] \o << >>

FirstRemovals(keys) ==
  SelectSeq([i \in 1..Len(keys) |-> i] \o << >>,
            LAMBDA i : \A j \in 1..(i - 1) : keys[j] # keys[i])

\* lines 139-143: what the cleanup returns, with the storage it leaves
CleanupResult(st, meta, cacheItems, evicted, keys, firsts, now) ==
  [store |-> MapDrop(st, Range(keys)),
   meta |-> [urls |-> [i \in 1..(Len(cacheItems) - evicted) |->
                         cacheItems[evicted + i].url] \o << >>,
             totalSize |-> meta.totalSize - EvictedSize(cacheItems, evicted, 0),
             lastCleanup |-> now],
   removed |-> [i \in 1..Len(firsts) |-> keys[firsts[i]]] \o << >>]

EvictFrom(st, meta, cacheItems, evicted, now) ==
  CleanupResult(st, meta, cacheItems, evicted, RemovedKeys(cacheItems, evicted),
                FirstRemovals(RemovedKeys(cacheItems, evicted)), now)

EvictSorted(st, meta, cacheItems, targetSize, now) ==
  EvictFrom(st, meta, cacheItems,
            EvictLoop(cacheItems, 1, meta.totalSize, targetSize), now)

performLRUCleanup(st, meta, targetSize, now) ==
  EvictSorted(st, meta, SortByCachedAt(ReadItems(st, meta.urls), 1, << >>),
              targetSize, now)

(***************************************************************************)
(* cacheContent.  `fault` is what localStorage.setItem does for the entry: *)
(*   "ok"               the write succeeds                                 *)
(*   "quota_retry_ok"   QuotaExceededError, the write after cleanup works  *)
(*   "quota_retry_fail" QuotaExceededError, the second write throws too    *)
(*   "error"            another exception                                  *)
(* The result carries the storage, the saved metadata, the return value,   *)
(* the keys the cleanups removed, in order, and the tracked size each      *)
(* cleanup of the call ended with.                                         *)
(***************************************************************************)
EntryFaults == {"ok", "quota_retry_ok", "quota_retry_fail", "error"}

NeedsCleanup(meta, contentSize) ==
  (meta.totalSize + contentSize) * 10 > MAX_CACHE_SIZE * CLEANUP_THRESHOLD_TENTHS

Cleaned(c) ==
  [store |-> c.store, meta |-> c.meta, removed |-> c.removed,
   cleaned |-> << c.meta.totalSize >>]

\* lines 162-165
ThresholdCleanup(st, meta, contentSize, now) ==
  IF NeedsCleanup(meta, contentSize)
    THEN Cleaned(performLRUCleanup(st, meta,
                                   Tenths(MAX_CACHE_SIZE, CLEANUP_TARGET_TENTHS), now))
    ELSE [store |-> st, meta |-> meta, removed |-> << >>, cleaned |-> << >>]

CleanedAgain(c1, c2) ==
  [store |-> c2.store, meta |-> c2.meta, removed |-> c1.removed \o c2.removed,
   cleaned |-> Append(c1.cleaned, c2.meta.totalSize)]

\* lines 186-189
QuotaCleanup(c, now) ==
  CleanedAgain(c, performLRUCleanup(c.store, c.meta,
                                    Tenths(MAX_CACHE_SIZE, QUOTA_TARGET_TENTHS), now))

\* return false: the metadata is not saved
GiveUp(c, ms) ==
  [store |-> c.store, metaStore |-> ms, ret |-> FALSE, removed |-> c.removed,
   cleaned |-> c.cleaned]

TrackUrl(meta, url, contentSize) ==
  IF url \in Range(meta.urls) THEN meta
  ELSE [meta EXCEPT !.urls = Append(meta.urls, url),
                    !.totalSize = meta.totalSize + contentSize]

\* lines 179 (or 191) and 200-208: the entry has been written
FinishCache(c, ms, url, content, contentSize, now, metaFault) ==
  [store |-> MapPut(c.store, getCacheKey(url),
                    [content |-> content, cachedAt |-> now, size |-> contentSize]),
   metaStore |-> saveMeta(ms, TrackUrl(c.meta, url, contentSize), metaFault),
   ret |-> TRUE, removed |-> c.removed, cleaned |-> c.cleaned]

\* lines 167-208, after the threshold cleanup c
WriteEntry(c, ms, url, content, contentSize, now, fault, metaFault) ==
  IF c.meta.totalSize + contentSize > MAX_CACHE_SIZE THEN GiveUp(c, ms)
  ELSE IF fault = "ok" THEN FinishCache(c, ms, url, content, contentSize, now, metaFault)
  ELSE IF fault = "error" THEN GiveUp(c, ms)
  ELSE IF fault = "quota_retry_ok"
    THEN FinishCache(QuotaCleanup(c, now), ms, url, content, contentSize, now, metaFault)
  ELSE GiveUp(QuotaCleanup(c, now), ms)

TooLarge_Never(contentSize) == FALSE

\* line 154
TooLarge(contentSize) == contentSize > MAX_CHAPTER_SIZE

cacheContent(st, ms, url, content, now, fault, metaFault) ==
  IF TooLarge(BlobSize(content)) THEN
    [store |-> st, metaStore |-> ms, ret |-> FALSE, removed |-> << >>, cleaned |-> << >>]
  ELSE
    WriteEntry(ThresholdCleanup(st, getMeta(ms, now), BlobSize(content), now),
               ms, url, content, BlobSize(content), now, fault, metaFault)

(***************************************************************************)
(* getCachedContent.  writeFault: the setItem that refreshes cachedAt      *)
(* throws, which the catch turns into null.                                *)
(***************************************************************************)
RefreshCachedAt_Kept(cache, now) == cache
RefreshCachedAt(cache, now) == [cache EXCEPT !.cachedAt = now]

getCachedContent(st, url, now, writeFault) ==
  LET key == getCacheKey(url) IN
  IF key \notin DOMAIN st THEN [store |-> st, ret |-> NoContent]
  ELSE IF writeFault THEN [store |-> st, ret |-> NoContent]
  ELSE [store |-> MapPut(st, key, RefreshCachedAt(st[key], now)),
        ret |-> st[key].content]

(***************************************************************************)
(* clearAllCache, getCacheStats                                            *)
(***************************************************************************)
clearAllCache(st, ms, now, metaFault) ==
  LET meta == getMeta(ms, now) IN
  [store |-> MapDrop(st, {getCacheKey(u) : u \in Range(meta.urls)}),
   metaStore |-> saveMeta(ms, [urls |-> << >>, totalSize |-> 0, lastCleanup |-> now],
                          metaFault)]

getCacheStats(ms, now) ==
  [count |-> Len(getMeta(ms, now).urls), size |-> getMeta(ms, now).totalSize]

(***************************************************************************)
(* The cache calls as actions.  Every call reads Date.now() once; the      *)
(* clock moves one tick per call.                                          *)
(***************************************************************************)
NoUrl == MkUrl(0, 0, << >>)

NoOp == [name |-> "none", url |-> NoUrl, content |-> NoContent, ok |-> FALSE,
         value |-> NoContent, removed |-> << >>, survivors |-> {},
         cleaned |-> << >>, tracked |-> 0, fault |-> "none"]

\* the history of access times follows the entries that are in storage
AccessAfter(acc, st2, key, touched, now) ==
  [k \in DOMAIN st2 |-> IF k = key /\ touched THEN now
                        ELSE IF k \in DOMAIN acc THEN acc[k] ELSE now]

CacheContent(url, content, fault, metaFault) ==
  /\ budget > 0
  /\ \E now \in {clock + 1} :
     \E r \in {cacheContent(store, metaStore, url, content, now, fault, metaFault)} :
        /\ store' = r.store
        /\ metaStore' = r.metaStore
        /\ clock' = now
        /\ budget' = budget - 1
        /\ accessAt' = AccessAfter(accessAt, r.store, getCacheKey(url), r.ret, now)
        /\ cachedUnder' = IF r.ret THEN MapPut(cachedUnder, url, content) ELSE cachedUnder
        /\ lastOp' = [name |-> "cacheContent", url |-> url, content |-> content,
                      ok |-> r.ret, value |-> NoContent,
                      removed |-> [i \in 1..Len(r.removed) |-> accessAt[r.removed[i]]],
                      survivors |-> {accessAt[k] : k \in (DOMAIN store) \ Range(r.removed)},
                      cleaned |-> r.cleaned,
                      tracked |-> getMeta(metaStore, now).totalSize,
                      fault |-> fault]

GetCachedContent(url, writeFault) ==
  /\ budget > 0
  /\ \E now \in {clock + 1} :
     \E r \in {getCachedContent(store, url, now, writeFault)} :
        /\ store' = r.store
        /\ clock' = now
        /\ budget' = budget - 1
        /\ accessAt' = AccessAfter(accessAt, r.store, getCacheKey(url), r.ret # NoContent, now)
        /\ lastOp' = [NoOp EXCEPT !.name = "getCachedContent", !.url = url,
                                  !.ok = (r.ret # NoContent), !.value = r.ret]
        /\ UNCHANGED << metaStore, cachedUnder >>

ClearAllCache(metaFault) ==
  /\ budget > 0
  /\ \E now \in {clock + 1} :
     \E r \in {clearAllCache(store, metaStore, now, metaFault)} :
        /\ store' = r.store
        /\ metaStore' = r.metaStore
        /\ clock' = now
        /\ budget' = budget - 1
        /\ accessAt' = AccessAfter(accessAt, r.store, getCacheKey(NoUrl), FALSE, now)
        /\ lastOp' = [NoOp EXCEPT !.name = "clearAllCache", !.ok = TRUE]
        /\ UNCHANGED cachedUnder

(***************************************************************************)
(* The cache a session starts with: localStorage outlives the session, so  *)
(* the start is the cache that n earlier calls cacheContent(FillerUrl(i),  *)
(* ContentMax) at times 1..n left behind.  The first FillFree of these     *)
(* calls stay under the cleanup threshold (line 163), so each of them only *)
(* writes its entry and appends to the metadata (lines 174-208).           *)
(***************************************************************************)
FillFree == Tenths(MAX_CACHE_SIZE, CLEANUP_THRESHOLD_TENTHS) \div MAX_CHAPTER_SIZE

FilledWithoutCleanup(n) ==
  LET keyOf == [i \in 1..n |-> getCacheKey(FillerUrl(i))]
      timeOf == [k \in Range(keyOf) |-> CHOOSE i \in 1..n : keyOf[i] = k]
  IN [store |-> [k \in Range(keyOf) |->
                   [content |-> ContentMax, cachedAt |-> timeOf[k],
                    size |-> BlobSize(ContentMax)]],
      metaStore |-> IF n = 0 THEN << >>
                    ELSE << [urls |-> [i \in 1..n |-> FillerUrl(i)],
                             totalSize |-> n * BlobSize(ContentMax),
                             lastCleanup |-> 1] >>,
      accessAt |-> timeOf,
      cachedUnder |-> [u \in {FillerUrl(i) : i \in 1..n} |-> ContentMax]]

FilledOnceMore(p, r, n) ==
  [store |-> r.store, metaStore |-> r.metaStore,
   accessAt |-> AccessAfter(p.accessAt, r.store, getCacheKey(FillerUrl(n)), r.ret, n),
   cachedUnder |-> IF r.ret THEN MapPut(p.cachedUnder, FillerUrl(n), ContentMax)
                   ELSE p.cachedUnder]

FillAfter(p, n) ==
  FilledOnceMore(p, cacheContent(p.store, p.metaStore, FillerUrl(n), ContentMax, n,
                                 "ok", FALSE), n)

RECURSIVE Prefilled(_)
Prefilled(n) ==
  IF n <= FillFree THEN FilledWithoutCleanup(n)
  ELSE FillAfter(Prefilled(n - 1), n)

CacheStartsWith(n) ==
  \E p \in {Prefilled(n)} :
  /\ store = p.store
  /\ metaStore = p.metaStore
  /\ accessAt = p.accessAt
  /\ cachedUnder = p.cachedUnder
  /\ clock = n
  /\ lastOp = NoOp

CacheUrls == {ChapterUrlA, ChapterUrlB, TitledUrl}
ReadUrls == CacheUrls \cup {FillerUrl(1)}
CacheContents == {ContentA, ContentMax, ContentOver}

(***************************************************************************)
(* The book service: searchBooks, getChapters, getContent, for a Legado    *)
(* source and for an ESO source.  A rule is "absent" (the Legado bundle or *)
(* the ESO rule string is missing), "empty" (the Legado bundle is there,   *)
(* its list or content selector is empty), "css", or "other" (an ESO rule  *)
(* that is not a CSS selector).  A response is what the host's httpGet     *)
(* answers: success with the parsed page, or a failure.                    *)
(***************************************************************************)
VARIABLES svcCall    \* the last call: arguments, requests issued, outcome

MaxElements == 2

BookUrl == MkUrl(1024, 0, << >>)
TocUrl == MkUrl(1024, 9, << >>)

\* a url a page gives relative to the source's base url, and new URL(url, base).href
Relative(u) == [relative |-> u]
Href(u) == IF "relative" \in DOMAIN u THEN u.relative ELSE u

\* parseEsoUrlRule: the url an ESO url rule makes of `result`
UrlRuleOf(u) == [rule |-> u]

Elements ==
  [name : {"", "n"}, url : {NoUrl, ChapterUrlA, Relative(ChapterUrlB)}]

ElementLists == UNION {[1..n -> Elements] : n \in 0..MaxElements}

\* a relative url that new URL(url, base) rejects
Unresolvable == [unresolvable |-> TRUE]

\* the elements of a search page: also one for which a rule throws while a
\* field is extracted, and one whose url cannot be resolved
SearchElements ==
  Elements \cup {[name |-> "n", url |-> ChapterUrlA, throws |-> TRUE],
                 [name |-> "n", url |-> Unresolvable]}

SearchLists == UNION {[1..n -> SearchElements] : n \in 0..MaxElements}

\* the body of the forEach throws for the element
Throws(element) == "throws" \in DOMAIN element \/ "unresolvable" \in DOMAIN element.url

Texts == {"", "text", "ad"}
TextLists == UNION {[1..n -> Texts] : n \in 0..MaxElements}

Failure == [success |-> FALSE]

Sources ==
  [kind : {"legado"}, searchUrl : BOOLEAN, rule : {"absent", "empty", "css"},
   urlRule : BOOLEAN, replaceRegex : BOOLEAN]
  \cup
  [kind : {"eso"}, searchUrl : BOOLEAN, rule : {"absent", "css", "other"},
   urlRule : BOOLEAN, replaceRegex : {FALSE}]

NewCall(op, source, target, responses) ==
  [op |-> op, source |-> source, target |-> target, responses |-> responses,
   requests |-> << >>, rejected |-> FALSE, error |-> "", result |-> << >>]

NoCall == NewCall("none", Failure, NoUrl, << >>)

Rejects(call, error) == [call EXCEPT !.rejected = TRUE, !.error = error]
Resolves(call, result) == [call EXCEPT !.result = result]
Requests(call, url) == [call EXCEPT !.requests = Append(call.requests, url)]

\* the entries pushed: href resolved, both name and url non-empty; the
\* try/catch around the body of the forEach drops an element that throws
Extracted_Named(elements) ==
  LET caught == SelectSeq(elements, LAMBDA element : ~Throws(element))
  IN SelectSeq([i \in 1..Len(caught) |->
                  [name |-> caught[i].name, url |-> Href(caught[i].url)]] \o << >>,
               LAMBDA e : e.name # "")

Extracted(elements) ==
  LET caught == SelectSeq(elements, LAMBDA element : ~Throws(element))
  IN SelectSeq([i \in 1..Len(caught) |->
                  [name |-> caught[i].name, url |-> Href(caught[i].url)]] \o << >>,
               LAMBDA e : e.name # "" /\ e.url # NoUrl)

\* the elements the list rule selects in the page; searchBooksLegado takes
\* the document element when the bundle has no bookList selector
Selected(call, page) ==
  IF call.source.rule = "css" THEN page.list
  ELSE IF call.source.kind = "legado" /\ call.op = "searchBooks" THEN << page.root >>
  ELSE << >>

AfterFetch_Uncaught(call, response, failure) ==
  IF ~response.success THEN Rejects(call, failure)
  ELSE IF \E i \in 1..Len(Selected(call, response)) : Throws(Selected(call, response)[i])
  THEN Rejects(call, "HitFailed")
  ELSE Resolves(call, Extracted(Selected(call, response)))

AfterFetch(call, response, failure) ==
  IF ~response.success THEN Rejects(call, failure)
  ELSE Resolves(call, Extracted(Selected(call, response)))

\* searchBooksLegado / searchBooksEso: the request goes to the parsed search url
searchBooks(source, response) ==
  IF ~source.searchUrl \/ source.rule = "absent"
    THEN Rejects(NewCall("searchBooks", source, UrlRuleOf(NoUrl), << response >>),
                 "NoSearchRule")
    ELSE AfterFetch(Requests(NewCall("searchBooks", source, UrlRuleOf(NoUrl),
                                     << response >>), UrlRuleOf(NoUrl)),
                    response, "RequestFailed")

\* getChaptersLegado: with ruleBookInfo.tocUrl the book page is fetched first
\* and may give the url of the table of contents
LegadoTocUrl(source, book, first) ==
  IF source.urlRule /\ first.success /\ first.tocUrl # NoUrl
    THEN Href(first.tocUrl) ELSE book

\* getChaptersEso / getContentEso: the url rule, when set, makes the url
EsoUrl(source, url) == IF source.urlRule THEN UrlRuleOf(url) ELSE url

TocRequests(call, source, book, first) ==
  IF source.kind = "eso" THEN Requests(call, EsoUrl(source, book))
  ELSE Requests(IF source.urlRule THEN Requests(call, book) ELSE call,
                LegadoTocUrl(source, book, first))

getChapters_FetchFirst(source, book, first, response) ==
  IF source.rule = "absent"
    THEN Rejects(TocRequests(NewCall("getChapters", source, book, << first, response >>),
                             source, book, first), "NoTocRule")
    ELSE AfterFetch(TocRequests(NewCall("getChapters", source, book,
                                        << first, response >>), source, book, first),
                    response, "TocFailed")

getChapters(source, book, first, response) ==
  IF source.rule = "absent"
    THEN Rejects(NewCall("getChapters", source, book, << first, response >>), "NoTocRule")
    ELSE AfterFetch(TocRequests(NewCall("getChapters", source, book,
                                        << first, response >>), source, book, first),
                    response, "TocFailed")

\* getContentLegado joins innerHTML + "\n" of the selected elements and
\* applies replaceRegex; getContentEso wraps every non-blank text in <p></p>,
\* or takes what a rule that is not CSS extracts from the document element
Lines(texts) ==
  [i \in 1..(2 * Len(texts)) |->
     IF i % 2 = 1 THEN texts[(i + 1) \div 2] ELSE "\n"] \o << >>

Paragraphs(texts) ==
  [i \in 1..(3 * Len(texts)) |->
     IF i % 3 = 1 THEN "<p>" ELSE IF i % 3 = 2 THEN texts[(i + 2) \div 3] ELSE "</p>"]
  \o << >>

ContentOf(source, page) ==
  IF source.kind = "legado" THEN
    IF source.rule # "css" THEN << >>
    ELSE SelectSeq(Lines(page.texts), LAMBDA t : ~(source.replaceRegex /\ t = "ad"))
  ELSE IF source.rule = "css" THEN Paragraphs(SelectSeq(page.texts, LAMBDA t : t # ""))
  ELSE IF page.root = "" THEN << >> ELSE << page.root >>

ContentAfterFetch(call, response) ==
  IF ~response.success THEN Rejects(call, "ContentFailed")
  ELSE Resolves(call, ContentOf(call.source, response))

getContent(source, chapter, response) ==
  IF source.rule = "absent"
    THEN Rejects(NewCall("getContent", source, chapter, << response >>), "NoContentRule")
    ELSE ContentAfterFetch(
           Requests(NewCall("getContent", source, chapter, << response >>),
                    IF source.kind = "eso" THEN EsoUrl(source, chapter) ELSE chapter),
           response)

(***************************************************************************)
(* The calls as actions: one call, with the answers the host gives.        *)
(***************************************************************************)
SearchPages == [success : {TRUE}, root : Elements, list : SearchLists]
TocPages == [success : {TRUE}, list : ElementLists]
BookPages == [success : {TRUE}, tocUrl : {NoUrl, TocUrl, Relative(TocUrl)}]
ContentPages == [success : {TRUE}, root : Texts, texts : TextLists]

SearchBooks(source, response) ==
  /\ svcCall.op = "none"
  /\ svcCall' = searchBooks(source, response)

GetChapters(source, book, first, response) ==
  /\ svcCall.op = "none"
  /\ svcCall' = getChapters(source, book, first, response)

GetContent(source, chapter, response) ==
  /\ svcCall.op = "none"
  /\ svcCall' = getContent(source, chapter, response)

(***************************************************************************)
(* The reading view (MarketView.vue) and the shelf (shelfManager.ts).      *)
(* A book found on source s has the URL of that source; a book may record  *)
(* alternative sources.  Chapter indexes are 0-based as in the code, the   *)
(* chapter list is the sequence chapters[1..n].  A content is the sequence *)
(* of the chapters whose text it is: << >> is the empty string.            *)
(***************************************************************************)
\* user events explored in a session of the reading view
MaxClicks == 3
\* chapters of a book on a source: none, ShortBook or LongBook
ShortBook == 5
LongBook == 8
\* a scroll position below the top of a chapter
ScrollMark == 120

SourceIds == {"S1", "S2", "S3"}

BookUrlAt(name, sourceId) == [name |-> name, sourceId |-> sourceId]

BookInfo(name, sourceId, alternativeSources) ==
  [name |-> name, sourceId |-> sourceId, bookUrl |-> BookUrlAt(name, sourceId),
   alternativeSources |-> alternativeSources]

NoBook == BookInfo("none", "none", << >>)

\* what the search lists: book A of S1 with or without alternatives (the
\* entry of S1 itself may be among them), and book B of S3
SearchResults ==
  { BookInfo("A", "S1", [k \in 1..Len(order) |->
                           [sourceId |-> order[k], bookUrl |-> BookUrlAt("A", order[k])]] \o << >>) :
      order \in { << >>, << "S2", "S3" >>, << "S3", "S1", "S2" >> } }
  \cup { BookInfo("B", "S3", << >>) }

ChapterList(bookUrl, n) == [k \in 1..n |-> [url |-> bookUrl, index |-> k - 1]] \o << >>

Message(kind, sourceId) == [kind |-> kind, sourceId |-> sourceId]

NoError == Message("none", "none")

\* the value of restoringScroll that stands for null
Null == -1

VARIABLES installed, view, shelf, tasks, clicks, overlapped, lastSwitch, lastFallback

readerVars == << installed, view, shelf, tasks, clicks, overlapped, lastSwitch, lastFallback >>

\* the state of the source manager (sourceManager.ts, below)
VARIABLES manager, lastCall, calls

managerVars == << manager, lastCall, calls >>

VARIABLES ruleRun    \* a rule given to a rule executor, with what the run did
ruleVars == << ruleRun >>

VARIABLES parseRun    \* a call of one of the rule parsers' text functions, with its result
parseVars == << parseRun >>

VARIABLES bridge    \* the webview's side of the message channel to the extension (vscode.ts)
bridgeVars == << bridge >>

(***************************************************************************)
(* shelfManager: every call loads the shelf, changes it and saves it.      *)
(***************************************************************************)
FindIndex(books, bookUrl) ==
  LET hits == {i \in 1..Len(books) : books[i].bookInfo.bookUrl = bookUrl}
  IN IF hits = {} THEN 0 ELSE CHOOSE i \in hits : \A j \in hits : i <= j

ShelfBook(bookInfo, chapterIndex, totalChapters, scrollPosition) ==
  [bookInfo |-> bookInfo, chapterIndex |-> chapterIndex,
   totalChapters |-> totalChapters, scrollPosition |-> scrollPosition]

addToShelf(books, book) ==
  IF FindIndex(books, book.bookInfo.bookUrl) > 0
  THEN [books EXCEPT ![FindIndex(books, book.bookInfo.bookUrl)] = book]
  ELSE << book >> \o books

updateProgress(books, bookUrl, chapterIndex, scrollPosition, totalChapters) ==
  IF FindIndex(books, bookUrl) = 0 THEN books
  ELSE [books EXCEPT ![FindIndex(books, bookUrl)] =
          ShelfBook(@.bookInfo, chapterIndex, totalChapters, scrollPosition)]

\* the entry found, as a sequence: << >> is null
getBookProgress(books, bookUrl) ==
  IF FindIndex(books, bookUrl) = 0 THEN << >> ELSE << books[FindIndex(books, bookUrl)] >>

replaceBookInfo(books, oldBookUrl, newBookInfo, chapterIndex) ==
  IF FindIndex(books, oldBookUrl) = 0 THEN books
  ELSE [books EXCEPT ![FindIndex(books, oldBookUrl)] =
          [@ EXCEPT !.bookInfo = newBookInfo, !.chapterIndex = chapterIndex]]

(***************************************************************************)
(* The refs of the view, and the calls that wait for an answer of the book *)
(* service.  A task is one chain of calls started by a user event, at the  *)
(* await it is suspended at:                                               *)
(*   "load"         handleSelectBook in loadChapters, awaiting getChapters *)
(*   "content"      readChapter awaiting getContent                        *)
(*   "alternative"  trySwitchToAlternative awaiting getChapters of the     *)
(*                  alternative fallbackList[pos]                          *)
(* with the locals that are live across the await.  `tried` lists the      *)
(* sources trySwitchToAlternative has asked so far.                        *)
(***************************************************************************)
InitialView ==
  [selectedBook |-> NoBook, chapters |-> << >>, currentChapterIndex |-> 0, content |-> << >>,
   loading |-> FALSE, error |-> NoError, restoringScroll |-> Null, restorers |-> 0]

NoTask ==
  [id |-> 0, pc |-> "none", source |-> "none", chapter |-> [url |-> NoBook.bookUrl, index |-> 0], index |-> 0,
   allowFallback |-> FALSE, pos |-> 0, book |-> NoBook, addAfter |-> FALSE,
   message |-> NoError, originalBook |-> NoBook, alternatives |-> << >>, tried |-> << >>]

Step(v, books, task) == [view |-> v, shelf |-> books, task |-> task]

\* currentSource: sourceManager.getById(selectedBook.sourceId), "none" for null
currentSource(v) ==
  IF v.selectedBook # NoBook /\ v.selectedBook.sourceId \in installed
  THEN v.selectedBook.sourceId ELSE "none"

ClampIndex_Unclamped(index, n) == index

\* Math.max(0, Math.min(index, n - 1))
ClampIndex(index, n) ==
  LET least == IF index < n - 1 THEN index ELSE n - 1
  IN IF least > 0 THEN least ELSE 0

(***************************************************************************)
(* readChapter and trySwitchToAlternative.  Each operator gives the view,  *)
(* the shelf and the suspended task (NoTask when the chain has ended) that *)
(* the code leaves at its next await of the book service.  `await          *)
(* nextTick()` resumes in the same turn of the event loop, before any      *)
(* answer or user event.                                                   *)
(***************************************************************************)
\* the chain returns to its first caller: handleSelectBook adds the book it
\* was given to the shelf after its readChapter(0) (lines 495-503)
Returned(v, books, t) ==
  Step(v,
       IF t.addAfter THEN addToShelf(books, ShelfBook(t.book, 0, Len(v.chapters), 0)) ELSE books,
       NoTask)

\* lines 584-596, up to the await of getContent; a call with
\* allowFallback = FALSE returns into line 706 of the call that fell back
readChapter(v, books, index, allowFallback, t) ==
  IF currentSource(v) = "none" \/ index < 0 \/ index >= Len(v.chapters)
  THEN Returned([v EXCEPT !.loading = allowFallback /\ @], books, t)
  ELSE Step([v EXCEPT !.currentChapterIndex = index, !.loading = TRUE, !.error = NoError],
            books,
            [t EXCEPT !.pc = "content", !.source = currentSource(v),
                      !.chapter = v.chapters[index + 1], !.index = index,
                      !.allowFallback = allowFallback])

\* lines 708-714: error.value = { message, retry }, finally loading = false
ReadFailed(v, books, t, message) ==
  Returned([v EXCEPT !.error = message, !.loading = FALSE], books, t)

\* lines 789-798: the recorded alternatives, with the entry of the current
\* source put first when it is not among them
Alternatives(book) ==
  IF \E i \in 1..Len(book.alternativeSources) : book.alternativeSources[i].sourceId = book.sourceId
  THEN book.alternativeSources
  ELSE << [sourceId |-> book.sourceId, bookUrl |-> book.bookUrl] >> \o book.alternativeSources

FallbackList_All(alternatives, originalBook) == alternatives

\* line 800
FallbackList(alternatives, originalBook) ==
  SelectSeq(alternatives, LAMBDA item : item.sourceId # originalBook.sourceId)

\* the for loop of lines 802-829 from fallbackList[pos] on, up to the await
\* of getChapters; falling out of the loop returns false into line 703
RECURSIVE NextAlternative(_, _, _, _)
NextAlternative(v, books, t, pos) ==
  IF pos > Len(FallbackList(t.alternatives, t.originalBook))
  THEN ReadFailed(v, books, t, t.message)
  ELSE IF FallbackList(t.alternatives, t.originalBook)[pos].sourceId \notin installed
  THEN NextAlternative(v, books, t, pos + 1)
  ELSE Step(v, books,
            [t EXCEPT !.pc = "alternative", !.pos = pos,
                      !.source = FallbackList(t.alternatives, t.originalBook)[pos].sourceId,
                      !.tried = Append(@, FallbackList(t.alternatives, t.originalBook)[pos].sourceId)])

\* lines 782-800, called from the catch of readChapter (line 703)
trySwitchToAlternative(v, books, t, targetIndex, message) ==
  IF v.selectedBook = NoBook \/ Len(v.selectedBook.alternativeSources) = 0
  THEN ReadFailed(v, books, t, message)
  ELSE NextAlternative(v, books,
                       [t EXCEPT !.message = message, !.originalBook = v.selectedBook,
                                 !.alternatives = Alternatives(v.selectedBook),
                                 !.index = targetIndex],
                       1)

\* lines 811-828: the answer of getChapters for alt = fallbackList[t.pos];
\* a list that is not empty switches the book to it (lines 814-826)
AlternativeAnswered(v, books, t, alt, answer) ==
  IF answer.failed \/ answer.count = 0
  THEN NextAlternative(v, books, t, t.pos + 1)
  ELSE readChapter(
         [v EXCEPT !.chapters = ChapterList(alt.bookUrl, answer.count),
                   !.selectedBook = [t.originalBook EXCEPT !.sourceId = alt.sourceId,
                                                           !.bookUrl = alt.bookUrl,
                                                           !.alternativeSources = t.alternatives],
                   !.currentChapterIndex = ClampIndex(t.index, answer.count)],
         replaceBookInfo(books, t.originalBook.bookUrl,
                         [t.originalBook EXCEPT !.sourceId = alt.sourceId,
                                                !.bookUrl = alt.bookUrl,
                                                !.alternativeSources = t.alternatives],
                         ClampIndex(t.index, answer.count)),
         ClampIndex(t.index, answer.count), FALSE, t)

\* lines 596-715: the answer of getContent: "ok", "empty" or "failed".  For
\* a content that is not blank (lines 597-697) the scroll is restored by
\* requestAnimationFrame callbacks when there is a position to restore and
\* the content container is rendered (selectedBook && content)
ContentAnswered(v, books, t, answer) ==
  CASE answer = "ok" ->
         Returned(
           [v EXCEPT !.content = << t.chapter >>, !.loading = FALSE,
                     !.restoringScroll = IF @ > 0 /\ v.selectedBook # NoBook THEN @ ELSE Null,
                     !.restorers = IF v.restoringScroll > 0 /\ v.selectedBook # NoBook
                                   THEN @ + 1 ELSE @],
           IF v.selectedBook = NoBook \/ v.restoringScroll # Null THEN books
           ELSE IF getBookProgress(books, v.selectedBook.bookUrl) # << >>
           THEN updateProgress(books, v.selectedBook.bookUrl, t.index, 0, Len(v.chapters))
           ELSE addToShelf(books, ShelfBook(v.selectedBook, t.index, Len(v.chapters), 0)),
           t)
    [] answer = "empty" ->
         Returned([v EXCEPT !.content = << >>, !.error = Message("empty_content", "none"),
                            !.loading = FALSE], books, t)
    [] OTHER ->
         IF t.allowFallback
         THEN trySwitchToAlternative(v, books, t, t.index, Message("failed", t.source))
         ELSE ReadFailed(v, books, t, Message("failed", t.source))

\* handleSelectBook, lines 459-472, with loadChapters up to its await
handleSelectBook(v, books, t, book) ==
  IF currentSource([v EXCEPT !.selectedBook = book]) = "none"
  THEN Step([v EXCEPT !.chapters = << >>, !.content = << >>, !.currentChapterIndex = 0,
                      !.error = NoError, !.selectedBook = book], books, NoTask)
  ELSE Step([v EXCEPT !.chapters = << >>, !.content = << >>, !.currentChapterIndex = 0,
                      !.error = NoError, !.selectedBook = book, !.loading = TRUE],
            books,
            [t EXCEPT !.pc = "load", !.book = book,
                      !.source = currentSource([v EXCEPT !.selectedBook = book])])

\* the answer of getChapters(source, book) in loadChapters (lines 562-578)
\* leaves the view `loaded`; handleSelectBook goes on with lines 474-507
ChaptersAnswered(v, books, t, answer) ==
  LET loaded == IF answer.failed
                THEN [v EXCEPT !.error = Message("failed", t.source), !.loading = FALSE]
                ELSE [v EXCEPT !.chapters = ChapterList(t.book.bookUrl, answer.count),
                               !.error = IF answer.count = 0 THEN Message("no_chapters", "none") ELSE @,
                               !.loading = FALSE]
      progress == getBookProgress(books, t.book.bookUrl)
  IN IF Len(loaded.chapters) = 0 THEN Step(loaded, books, NoTask)
     ELSE IF progress # << >>
     THEN readChapter(
            [loaded EXCEPT !.currentChapterIndex =
                             ClampIndex(progress[1].chapterIndex, Len(loaded.chapters)),
                           !.restoringScroll = progress[1].scrollPosition],
            books, ClampIndex(progress[1].chapterIndex, Len(loaded.chapters)), TRUE, t)
     ELSE readChapter(loaded, books, 0, TRUE, [t EXCEPT !.addAfter = TRUE])

\* goBack, lines 443-449, with persistProgressImmediate (lines 359-374);
\* scroll is getCurrentScroll()
goBack(v, books, scroll) ==
  Step([v EXCEPT !.selectedBook = NoBook, !.chapters = << >>, !.content = << >>],
       IF Len(v.chapters) = 0 THEN books
       ELSE updateProgress(books, v.selectedBook.bookUrl, v.currentChapterIndex, scroll,
                           Len(v.chapters)),
       NoTask)

(***************************************************************************)
(* The user events and the answers as actions.  What the user can click    *)
(* follows the template: the loading overlay covers the page but not the   *)
(* floating buttons of the reading view (shown when selectedBook and       *)
(* content are set), which go back and open the chapter list.              *)
(* lastSwitch records the last switch to an alternative source and         *)
(* lastFallback the end of the last read that failed on the source of the  *)
(* book; overlapped tells that a user event came while a call was waiting. *)
(***************************************************************************)
\* what getChapters answers: a failure, or a list of count chapters
Answers == {[failed |-> TRUE, count |-> 0]} \cup [failed : {FALSE}, count : {0, ShortBook, LongBook}]

NoSwitch ==
  [original |-> NoBook, failedIndex |-> 0, count |-> 0, tried |-> << >>, book |-> NoBook,
   retry |-> NoTask, overlapped |-> FALSE]

FallbackEnd(message, original, success, v) ==
  [message |-> message, original |-> original, success |-> success, shown |-> v.error,
   book |-> v.selectedBook, overlapped |-> overlapped]

Resume(step, rest) ==
  /\ view' = step.view
  /\ shelf' = step.shelf
  /\ tasks' = rest \cup (IF step.task = NoTask THEN {} ELSE {step.task})

UserEvent ==
  /\ clicks' = clicks + 1
  /\ overlapped' = (overlapped \/ tasks # {})
  /\ UNCHANGED << installed, lastSwitch, lastFallback, cacheVars, svcCall, managerVars, ruleVars, parseVars, bridgeVars >>

SelectBook ==
  /\ clicks < MaxClicks
  /\ ~view.loading
  /\ view.selectedBook = NoBook \/ (view.content = << >> /\ view.chapters = << >>)
  /\ \E book \in SearchResults :
       \E step \in {handleSelectBook(view, shelf, [NoTask EXCEPT !.id = clicks + 1], book)} :
         Resume(step, tasks)
  /\ UserEvent

ReadChapter ==
  /\ clicks < MaxClicks
  /\ view.selectedBook # NoBook
  /\ view.content # << >> \/ ~view.loading
  /\ \E index \in {0, 1, LongBook - 1} :
       /\ index < Len(view.chapters)
       /\ \E step \in {readChapter(view, shelf, index, TRUE, [NoTask EXCEPT !.id = clicks + 1])} :
            Resume(step, tasks)
  /\ UserEvent

GoBack ==
  /\ clicks < MaxClicks
  /\ view.selectedBook # NoBook
  /\ view.content # << >> \/ ~view.loading
  /\ \E scroll \in {0, ScrollMark} : \E step \in {goBack(view, shelf, scroll)} : Resume(step, tasks)
  /\ UserEvent

\* the requestAnimationFrame callback of lines 614-642 that ends the restore
TryRestore ==
  /\ view.restorers > 0
  /\ view' = [view EXCEPT !.restoringScroll = Null, !.restorers = @ - 1]
  /\ UNCHANGED << installed, shelf, tasks, clicks, overlapped, lastSwitch, lastFallback >>
  /\ UNCHANGED << cacheVars, svcCall, managerVars, ruleVars, parseVars, bridgeVars >>

ChaptersArrive ==
  /\ \E t \in tasks :
       /\ t.pc = "load"
       /\ \E answer \in Answers : \E step \in {ChaptersAnswered(view, shelf, t, answer)} :
            Resume(step, tasks \ {t})
  /\ UNCHANGED << installed, clicks, overlapped, lastSwitch, lastFallback >>
  /\ UNCHANGED << cacheVars, svcCall, managerVars, ruleVars, parseVars, bridgeVars >>

ContentArrives ==
  /\ \E t \in tasks :
       /\ t.pc = "content"
       /\ \E answer \in {"ok", "empty", "failed"} :
            \E step \in {ContentAnswered(view, shelf, t, answer)} :
              /\ Resume(step, tasks \ {t})
              /\ lastFallback' =
                   IF step.task # NoTask \/ (t.allowFallback /\ answer # "failed")
                   THEN lastFallback
                   ELSE IF t.allowFallback
                   THEN FallbackEnd(Message("failed", t.source), view.selectedBook, FALSE, step.view)
                   ELSE FallbackEnd(t.message, t.originalBook, answer = "ok", step.view)
  /\ UNCHANGED << installed, clicks, overlapped, lastSwitch, cacheVars, svcCall, managerVars, ruleVars, parseVars, bridgeVars >>

AlternativeArrives ==
  /\ \E t \in tasks :
       /\ t.pc = "alternative"
       /\ \E answer \in Answers : \E step \in {AlternativeAnswered(view, shelf, t,
                              FallbackList(t.alternatives, t.originalBook)[t.pos], answer)} :
            /\ Resume(step, tasks \ {t})
            /\ lastSwitch' =
                 IF answer.failed \/ answer.count = 0 THEN lastSwitch
                 ELSE [original |-> t.originalBook, failedIndex |-> t.index,
                       count |-> answer.count, tried |-> t.tried, book |-> step.view.selectedBook,
                       retry |-> step.task, overlapped |-> overlapped]
            /\ lastFallback' =
                 IF step.task # NoTask THEN lastFallback
                 ELSE FallbackEnd(t.message, t.originalBook, FALSE, step.view)
  /\ UNCHANGED << installed, clicks, overlapped, cacheVars, svcCall, managerVars, ruleVars, parseVars, bridgeVars >>

(***************************************************************************)
(* SourceManager (sourceManager.ts).  The Map of sources is kept as the    *)
(* sequence of its values in insertion order, which is what getAll()       *)
(* returns; `stored` is the list under STORAGE_KEY in localStorage;        *)
(* delivered[c] counts the notifications callback c received and keeps the *)
(* last list it was given.  saveFault: localStorage.setItem throws, which  *)
(* saveToStorage catches.  The callbacks c1 and c2 only take the list,     *)
(* "thrower" throws after taking it, and "once" calls the function that    *)
(* onChange returned for it (it unsubscribes itself) from inside the call. *)
(* A JSON object is a record that has the fields the object has; a text    *)
(* that is hashed is kept as its UTF-16 code units.  failedWrites counts   *)
(* the setItem calls that threw.                                           *)
(***************************************************************************)
\* calls of the source manager explored in a session
MaxCalls == 3

Callbacks == {"c1", "c2", "once", "thrower"}

ManagedIds == {"S1", "S2"}

\* the value of a property an object does not have
Undefined == "undefined"

\* http://Aa, http://BB, http://CC
HostAa == << 104, 116, 116, 112, 58, 47, 47, 65, 97 >>
HostBB == << 104, 116, 116, 112, 58, 47, 47, 66, 66 >>
HostCC == << 104, 116, 116, 112, 58, 47, 47, 67, 67 >>

\* sources the application hands to add, update and upsert
GivenSources ==
  [id : ManagedIds, name : {"a", "b"}, url : {HostAa}, enabled : {TRUE}, format : {"legado"},
   raw : {[bookSourceName |-> "a", bookSourceUrl |-> HostAa]}]

NoSource ==
  [id |-> "none", name |-> "none", url |-> << >>, enabled |-> FALSE, format |-> "none",
   raw |-> [bookSourceName |-> "none"]]

Has(map, id) == \E i \in 1..Len(map) : map[i].id = id

\* Map.set: the entry of the id is replaced in place, a new id goes last
MapSet(map, source) ==
  IF Has(map, source.id)
  THEN [i \in 1..Len(map) |-> IF map[i].id = source.id THEN source ELSE map[i]] \o << >>
  ELSE Append(map, source)

Occurrences(callbacks, c) == Cardinality({i \in 1..Len(callbacks) : callbacks[i] = c})

\* the function onChange returned for c (lines 286-291): indexOf, splice
Unsubscribed(callbacks, c) ==
  IF Occurrences(callbacks, c) = 0 THEN callbacks
  ELSE LET first == CHOOSE i \in 1..Len(callbacks) :
                      callbacks[i] = c /\ \A j \in 1..(i - 1) : callbacks[j] # c
       IN SubSeq(callbacks, 1, first - 1) \o SubSeq(callbacks, first + 1, Len(callbacks))

\* notifyChange: Array.prototype.forEach over the array itself, at its k-th
\* element; len is the length the array had when forEach began, an index
\* the array no longer has is not visited, a throw is caught (line 331)
RECURSIVE notifyChange(_, _, _, _)
notifyChange(m, map, k, len) ==
  IF k > len \/ k > Len(m.onChangeCallbacks) THEN m
  ELSE notifyChange(
         [m EXCEPT !.delivered[m.onChangeCallbacks[k]] = [count |-> @.count + 1, last |-> map],
                   !.onChangeCallbacks = IF m.onChangeCallbacks[k] = "once"
                                         THEN Unsubscribed(@, m.onChangeCallbacks[k]) ELSE @],
         map, k + 1, len)

\* JSON.stringify of a source: a property whose value is undefined is left out
Stringified(source) ==
  [f \in {g \in DOMAIN source : g # "id" \/ source.id # Undefined} |-> source[f]]

\* the source object JSON.parse gives back: reading a property it does not
\* have gives undefined
Parsed(object) ==
  [f \in DOMAIN object \cup {"id"} |->
     IF f \in DOMAIN object THEN object[f] ELSE Undefined]

\* saveToStorage: JSON.stringify(this.getAll()) is put under STORAGE_KEY
saveToStorage(m, saveFault) ==
  IF saveFault THEN [m EXCEPT !.failedWrites = @ + 1]
  ELSE [m EXCEPT !.stored = [i \in 1..Len(m.sources) |-> Stringified(m.sources[i])] \o << >>]

\* loadFromStorage: sources.set(source.id, source) for each parsed source,
\* from the k-th on
RECURSIVE loadFromStorage(_, _, _)
loadFromStorage(map, data, k) ==
  IF k > Len(data) THEN map
  ELSE loadFromStorage(MapSet(map, Parsed(data[k])), data, k + 1)

\* saveToStorage(); notifyChange() after the map has become `map`
SaveAndNotify(m, map, saveFault) ==
  notifyChange(saveToStorage([m EXCEPT !.sources = map], saveFault),
               map, 1, Len(m.onChangeCallbacks))

\* the ImportResult of a call that is not an import, and the string it was given
NoResult == [success |-> 0, failed |-> 0, errors |-> << >>]
NoWire == [dialect |-> "none", entries |-> << >>]

Outcome(m, ret) == [manager |-> m, ret |-> ret, result |-> NoResult, wire |-> NoWire]

add_Overwrites(m, source, saveFault) ==
  Outcome(SaveAndNotify(m, MapSet(m.sources, source), saveFault), TRUE)

add(m, source, saveFault) ==
  IF Has(m.sources, source.id) THEN Outcome(m, FALSE)
  ELSE Outcome(SaveAndNotify(m, MapSet(m.sources, source), saveFault), TRUE)

update(m, source, saveFault) ==
  IF ~Has(m.sources, source.id) THEN Outcome(m, FALSE)
  ELSE Outcome(SaveAndNotify(m, MapSet(m.sources, source), saveFault), TRUE)

\* upsert returns nothing: ret is TRUE
upsert(m, source, saveFault) ==
  Outcome(SaveAndNotify(m, MapSet(m.sources, source), saveFault), TRUE)

\* named delete in the code
deleteSource(m, id, saveFault) ==
  IF ~Has(m.sources, id) THEN Outcome(m, FALSE)
  ELSE Outcome(SaveAndNotify(m, SelectSeq(m.sources, LAMBDA s : s.id # id), saveFault), TRUE)

setEnabled_Unsaved(m, id, enabled, saveFault) ==
  IF ~Has(m.sources, id) THEN Outcome(m, FALSE)
  ELSE Outcome([m EXCEPT !.sources =
                  [i \in 1..Len(m.sources) |->
                     IF m.sources[i].id = id THEN [m.sources[i] EXCEPT !.enabled = enabled]
                     ELSE m.sources[i]] \o << >>], TRUE)

setEnabled(m, id, enabled, saveFault) ==
  IF ~Has(m.sources, id) THEN Outcome(m, FALSE)
  ELSE Outcome(SaveAndNotify(m,
                 [i \in 1..Len(m.sources) |->
                    IF m.sources[i].id = id THEN [m.sources[i] EXCEPT !.enabled = enabled]
                    ELSE m.sources[i]] \o << >>,
                 saveFault), TRUE)

\* deleteMany returns the count: ret tells that it is positive
deleteMany(m, ids, saveFault) ==
  IF \A id \in ids : ~Has(m.sources, id) THEN Outcome(m, FALSE)
  ELSE Outcome(SaveAndNotify(m, SelectSeq(m.sources, LAMBDA s : s.id \notin ids), saveFault), TRUE)

\* clear returns nothing: ret is TRUE
clear(m, saveFault) == Outcome(SaveAndNotify(m, << >>, saveFault), TRUE)

onChange(m, callback) ==
  Outcome([m EXCEPT !.onChangeCallbacks = Append(@, callback)], TRUE)

(***************************************************************************)
(* import and export.  A wire string is the sequence of its entries: the   *)
(* lines beginning with eso:// of an ESO string, the elements of the JSON  *)
(* array of a Legado string.  An ESO line has `data`, the object its       *)
(* Base64 part decodes to (atob, pako.ungzip, JSON.parse), or none when    *)
(* one of the three throws.                                                *)
(***************************************************************************)
\* entries of a wire string
MaxEntries == 2

EsoObjects ==
  { [id |-> "S1", name |-> "a", host |-> HostAa, searchUrl |-> "r1"],
    [name |-> "a", host |-> HostAa, searchUrl |-> "r1"],
    [name |-> "b", host |-> HostBB, searchUrl |-> "r2"] }

EsoLines == {[data |-> object] : object \in EsoObjects} \cup {[undecodable |-> TRUE]}

LegadoObjects ==
  { [bookSourceName |-> "a", bookSourceUrl |-> HostAa, ruleSearch |-> "r1"],
    [bookSourceName |-> "b", bookSourceUrl |-> HostBB, ruleSearch |-> "r2", enabled |-> FALSE],
    [bookSourceName |-> "c", bookSourceUrl |-> HostCC, ruleSearch |-> "r3"],
    [bookSourceName |-> "a", ruleSearch |-> "r1"],
    [ruleSearch |-> "r3"] }

Wires ==
  UNION {[dialect : {"eso"}, entries : [1..n -> EsoLines]] : n \in 1..MaxEntries}
    \cup UNION {[dialect : {"legado"}, entries : [1..n -> LegadoObjects]] : n \in 1..MaxEntries}

HexDigit(d) ==
  << "0", "1", "2", "3", "4", "5", "6", "7", "8", "9", "a", "b", "c", "d", "e", "f" >>[d + 1]

\* Number.prototype.toString(16)
RECURSIVE ToString16(_)
ToString16(h) ==
  LET t == (h[1] % 16) * Half + h[2]
      q == << h[1] \div 16, t \div 16 >>
  IN IF q = << 0, 0 >> THEN HexDigit(t % 16)
     ELSE ToString16(q) \o HexDigit(t % 16)

generateSourceId(url) == "legado_" \o ToString16(Abs32(StringHash(url, 1, << 0, 0 >>)))

parseEsoSourceThrows(line) == "data" \notin DOMAIN line

parseEsoSource(line) == line.data

convertEsoToUnified(esoSource) ==
  [id |-> IF "id" \in DOMAIN esoSource THEN esoSource.id ELSE Undefined,
   name |-> esoSource.name, url |-> esoSource.host, enabled |-> TRUE, format |-> "eso",
   raw |-> esoSource]

encodeEsoSource(source) == [data |-> source]

ValidLegado(object) ==
  "bookSourceName" \in DOMAIN object /\ "bookSourceUrl" \in DOMAIN object

parseLegadoSources(objects) == SelectSeq(objects, ValidLegado)

convertLegadoToUnified(legadoSource) ==
  [id |-> generateSourceId(legadoSource.bookSourceUrl),
   name |-> legadoSource.bookSourceName, url |-> legadoSource.bookSourceUrl,
   enabled |-> IF "enabled" \in DOMAIN legadoSource THEN legadoSource.enabled ELSE TRUE,
   format |-> "legado", raw |-> legadoSource]

isValidLegadoFormat(objects) ==
  \E i \in 1..Len(objects) :
    "bookSourceName" \in DOMAIN objects[i] \/ "bookSourceUrl" \in DOMAIN objects[i]

detectSourceFormat(wire) ==
  IF wire.dialect = "eso" THEN "eso"
  ELSE IF isValidLegadoFormat(wire.entries) THEN "legado"
  ELSE "null"

\* the loop over the lines of an ESO string, from the k-th line on
RECURSIVE importEso(_, _, _, _, _)
importEso(m, result, lines, k, saveFault) ==
  IF k > Len(lines) THEN [manager |-> m, result |-> result]
  ELSE IF parseEsoSourceThrows(lines[k])
  THEN importEso(m, [result EXCEPT !.failed = @ + 1, !.errors = Append(@, "eso_parse_failed")],
                 lines, k + 1, saveFault)
  ELSE importEso(upsert(m, convertEsoToUnified(parseEsoSource(lines[k])), saveFault).manager,
                 [result EXCEPT !.success = @ + 1], lines, k + 1, saveFault)

\* the loop over the sources parseLegadoSources returned, from the k-th on
RECURSIVE importLegado(_, _, _, _, _)
importLegado(m, result, legadoSources, k, saveFault) ==
  IF k > Len(legadoSources) THEN [manager |-> m, result |-> result]
  ELSE importLegado(upsert(m, convertLegadoToUnified(legadoSources[k]), saveFault).manager,
                    [result EXCEPT !.success = @ + 1], legadoSources, k + 1, saveFault)

\* import returns the ImportResult: ret is TRUE
import(m, wire, saveFault) ==
  LET done ==
        IF detectSourceFormat(wire) = "eso"
        THEN importEso(m, NoResult, wire.entries, 1, saveFault)
        ELSE IF detectSourceFormat(wire) = "legado"
        THEN importLegado(m, NoResult, parseLegadoSources(wire.entries), 1, saveFault)
        ELSE [manager |-> m, result |-> [NoResult EXCEPT !.errors = << "unrecognized" >>]]
  IN [manager |-> done.manager, ret |-> TRUE, result |-> done.result, wire |-> wire]

\* export() of all sources in the format
export(m, format) ==
  LET chosen == SelectSeq(m.sources, LAMBDA s : s.format = format)
  IN [dialect |-> format,
      entries |-> [i \in 1..Len(chosen) |->
                     IF format = "eso" THEN encodeEsoSource(chosen[i].raw)
                     ELSE chosen[i].raw] \o << >>]

\* the manager a session constructs: loadFromStorage() reads `stored`
NewManager(stored) ==
  [sources |-> loadFromStorage(<< >>, stored, 1), stored |-> stored,
   onChangeCallbacks |-> << >>, failedWrites |-> 0,
   delivered |-> [c \in Callbacks |-> [count |-> 0, last |-> << >>]]]

NoManagerCall ==
  [op |-> "none", source |-> NoSource, ret |-> FALSE, before |-> NewManager(<< >>),
   result |-> NoResult, wire |-> NoWire]

Called(op, source, outcome) ==
  /\ calls < MaxCalls
  /\ calls' = calls + 1
  /\ manager' = outcome.manager
  /\ lastCall' = [op |-> op, source |-> source, ret |-> outcome.ret, before |-> manager,
                  result |-> outcome.result, wire |-> outcome.wire]
  /\ UNCHANGED << cacheVars, svcCall, readerVars, ruleVars, parseVars, bridgeVars >>

Add == \E source \in GivenSources, saveFault \in BOOLEAN :
         Called("add", source, add(manager, source, saveFault))

Update == \E source \in GivenSources, saveFault \in BOOLEAN :
            Called("update", source, update(manager, source, saveFault))

Upsert == \E source \in GivenSources, saveFault \in BOOLEAN :
            Called("upsert", source, upsert(manager, source, saveFault))

Delete == \E id \in ManagedIds, saveFault \in BOOLEAN :
            Called("delete", [NoSource EXCEPT !.id = id], deleteSource(manager, id, saveFault))

SetEnabled == \E id \in ManagedIds, enabled \in BOOLEAN, saveFault \in BOOLEAN :
                Called("setEnabled", [NoSource EXCEPT !.id = id, !.enabled = enabled],
                       setEnabled(manager, id, enabled, saveFault))

DeleteMany == \E saveFault \in BOOLEAN :
                Called("deleteMany", NoSource, deleteMany(manager, ManagedIds, saveFault))

Clear == \E saveFault \in BOOLEAN : Called("clear", NoSource, clear(manager, saveFault))

Import == \E wire \in Wires, saveFault \in BOOLEAN :
            Called("import", NoSource, import(manager, wire, saveFault))

OnChange == \E callback \in Callbacks :
              Called("onChange", NoSource, onChange(manager, callback))

(***************************************************************************)
(* The rule executors: executeEsoRule (sourceManager.ts) and executeRule   *)
(* (legadoRuleParser.ts).  A value is null, a string, an array of strings  *)
(* or a DOM element.  A rule without combinator is kept as what it answers *)
(* for each subject: a "css" rule answers for the element or string it is  *)
(* run on, a "js" rule for the `result` its code sees, which is the one of *)
(* the context when the context has one.  The log of a run lists the calls *)
(* made for sub-rules, in order.                                           *)
(***************************************************************************)
\* sub-rules of a combined rule
MaxSubRules == 3

NullResult == [kind |-> "null"]
Str(text) == [kind |-> "string", text |-> text]
Element == [kind |-> "element"]

\* !value
Falsy(value) == value = NullResult \/ value = Str("")

NonEmpty_Always(result) == TRUE

\* result && (typeof result === "string" ? result.length > 0 : result.length > 0)
NonEmpty(result) ==
  /\ ~Falsy(result)
  /\ IF result.kind = "array" THEN Len(result.items) > 0 ELSE result.text # ""

Subjects == {NullResult, Element, Str("x"), Str("y")}

\* a selector with an attribute, with or without a ##regex; a string is only
\* put through the regex
AnswersOf(ofElement, ofX, ofY) ==
  [subject \in Subjects |->
     IF subject = Element THEN ofElement
     ELSE IF subject = Str("x") THEN ofX
     ELSE IF subject = Str("y") THEN ofY
     ELSE NullResult]

LeafRules ==
  { [type |-> "css", answers |-> AnswersOf(Str("x"), Str("x"), Str("y"))],
    [type |-> "css", answers |-> AnswersOf(Str(""), Str("x"), Str("y"))],
    [type |-> "css", answers |-> AnswersOf(NullResult, Str("x"), Str("y"))],
    [type |-> "css", answers |-> AnswersOf(Str("y"), Str("y"), Str("y"))],
    [type |-> "css", answers |-> AnswersOf(Str("y"), NullResult, Str("y"))],
    [type |-> "js", answers |-> AnswersOf(Str("y"), Str(""), Str(""))],
    [type |-> "js", answers |-> AnswersOf(Str("x"), Str("y"), Str("x"))] }

CombinedRules ==
  UNION {[type : {"raw"}, combinator : {"or", "and"}, subRules : [1..n -> LeafRules]] :
           n \in 1..MaxSubRules}

NoContext == [field \in {} |-> NullResult]

\* { ...context, result: currentResult, lastResult: currentResult }
WithResult(context, currentResult) ==
  [field \in DOMAIN context \cup {"result", "lastResult"} |->
     IF field \in {"result", "lastResult"} THEN currentResult ELSE context[field]]

SubRuleCall(rule, element, context) == [rule |-> rule, element |-> element, context |-> context]

Ran(result, log) == [result |-> result, log |-> log]

\* the rule without combinator: executeEsoJsRule / executeJsRule put the
\* context over their own `result`
LeafAnswer(rule, element, context) ==
  IF rule.type = "js" /\ "result" \in DOMAIN context
  THEN rule.answers[context.result]
  ELSE rule.answers[element]

\* currentResult[0]
FirstOf(array) ==
  IF Len(array.items) > 0 THEN Str(array.items[1]) ELSE [kind |-> "undefined"]

RECURSIVE Joined(_)
Joined(texts) == IF texts = << >> THEN "" ELSE texts[1] \o Joined(Tail(texts))

RECURSIVE executeEsoRule(_, _, _, _)
RECURSIVE EsoOr(_, _, _, _, _)
RECURSIVE EsoAnd(_, _, _, _, _, _)

\* lines 904-912, from the k-th sub-rule on
EsoOr(element, subRules, k, context, log) ==
  IF k > Len(subRules) THEN Ran(NullResult, log)
  ELSE LET r == executeEsoRule(element, subRules[k], context,
                               Append(log, SubRuleCall(subRules[k], element, context)))
       IN IF NonEmpty(r.result) THEN r
          ELSE EsoOr(element, subRules, k + 1, context, r.log)

\* lines 913-930, from the k-th sub-rule on
EsoAnd(element, subRules, k, context, currentResult, log) ==
  IF k > Len(subRules) THEN Ran(currentResult, log)
  ELSE LET input == IF Falsy(currentResult) THEN element
                    ELSE IF currentResult.kind = "array" THEN FirstOf(currentResult)
                    ELSE currentResult
           given == IF input.kind = "string" THEN input ELSE element
           r == executeEsoRule(given, subRules[k], WithResult(context, currentResult),
                               Append(log, SubRuleCall(subRules[k], given,
                                                       WithResult(context, currentResult))))
       IN IF Falsy(r.result) THEN r
          ELSE EsoAnd(element, subRules, k + 1, context, r.result, r.log)

executeEsoRule(element, rule, context, log) ==
  IF Falsy(element) THEN Ran(NullResult, log)
  ELSE IF "combinator" \in DOMAIN rule
  THEN IF rule.combinator = "or" THEN EsoOr(element, rule.subRules, 1, context, log)
       ELSE EsoAnd(element, rule.subRules, 1, context,
                   IF element.kind = "string" THEN element ELSE NullResult, log)
  ELSE Ran(LeafAnswer(rule, element, context), log)

RECURSIVE executeRule(_, _, _, _)
RECURSIVE LegadoOr(_, _, _, _, _)
RECURSIVE LegadoAnd(_, _, _, _, _, _)

\* legadoRuleParser.ts lines 192-200, from the k-th sub-rule on
LegadoOr(element, subRules, k, context, log) ==
  IF k > Len(subRules) THEN Ran(NullResult, log)
  ELSE LET r == executeRule(element, subRules[k], context,
                            Append(log, SubRuleCall(subRules[k], element, context)))
       IN IF NonEmpty(r.result) THEN r
          ELSE LegadoOr(element, subRules, k + 1, context, r.log)

\* legadoRuleParser.ts lines 201-215: the results are joined
LegadoAnd(element, subRules, k, context, results, log) ==
  IF k > Len(subRules)
  THEN Ran(IF Len(results) > 0 THEN Str(Joined(results)) ELSE NullResult, log)
  ELSE LET r == executeRule(element, subRules[k], context,
                            Append(log, SubRuleCall(subRules[k], element, context)))
       IN LegadoAnd(element, subRules, k + 1, context,
                    IF Falsy(r.result) THEN results
                    ELSE IF r.result.kind = "array" THEN results \o r.result.items
                    ELSE Append(results, r.result.text),
                    r.log)

executeRule(element, rule, context, log) ==
  IF Falsy(element) THEN Ran(NullResult, log)
  ELSE IF "combinator" \in DOMAIN rule
  THEN IF rule.combinator = "or" THEN LegadoOr(element, rule.subRules, 1, context, log)
       ELSE LegadoAnd(element, rule.subRules, 1, context, << >>, log)
  ELSE Ran(LeafAnswer(rule, element, context), log)

RuleRun(executor, rule, element, state, ran) ==
  [executor |-> executor, rule |-> rule, element |-> element, state |-> state,
   result |-> ran.result, log |-> ran.log]

NoRun ==
  RuleRun("none", [type |-> "raw", combinator |-> "or", subRules |-> << >>], NullResult,
          "none", Ran(NullResult, << >>))

ExecuteEsoRule ==
  /\ ruleRun.state = "given" /\ ruleRun.executor = "executeEsoRule"
  /\ ruleRun' = RuleRun(ruleRun.executor, ruleRun.rule, ruleRun.element, "done",
                        executeEsoRule(ruleRun.element, ruleRun.rule, NoContext, << >>))
  /\ UNCHANGED << cacheVars, svcCall, readerVars, managerVars, parseVars, bridgeVars >>

ExecuteRule ==
  /\ ruleRun.state = "given" /\ ruleRun.executor = "executeRule"
  /\ ruleRun' = RuleRun(ruleRun.executor, ruleRun.rule, ruleRun.element, "done",
                        executeRule(ruleRun.element, ruleRun.rule, NoContext, << >>))
  /\ UNCHANGED << cacheVars, svcCall, readerVars, managerVars, parseVars, bridgeVars >>

(***************************************************************************)
(* The text functions of the rule parsers (legadoRuleParser.ts and the ESO *)
(* part of sourceManager.ts).  A text is the sequence of its code units.   *)
(* parseRun holds one call: the function, its arguments and, once the call *)
(* is made, its result.                                                    *)
(***************************************************************************)
\* matches found by a selector stage
MaxMatches == 10

ParseCall(fn, args, state, result) ==
  [fn |-> fn, args |-> args, state |-> state, result |-> result]

NoParse == ParseCall("none", << >>, "none", << >>)

(***************************************************************************)
(* The index sublanguage.  The selector's regular expression hands         *)
(* applyIndexSelector the text after the dot (indexStr: an optional minus  *)
(* and digits) and the text between the brackets (arrayIndex).  arrayIndex *)
(* is kept as the split the code makes of it: whether it starts with "!",  *)
(* the separator it holds and the texts between the separators, which are  *)
(* empty or an optional minus and digits.  A match is the record of its    *)
(* position in the document.                                               *)
(***************************************************************************)
Matches(n) == [i \in 1..n |-> [node |-> i - 1]]

RECURSIVE ParseDigits(_, _, _)
ParseDigits(text, k, value) ==
  IF k > Len(text) THEN value ELSE ParseDigits(text, k + 1, value * 10 + (text[k] - 48))

\* parseInt(text, 10) of an optional minus (code unit 45) and digits
parseInt(text) == IF text[1] = 45 THEN 0 - ParseDigits(text, 2, 0) ELSE ParseDigits(text, 1, 0)

\* parts[k] ? parseInt(parts[k], 10) : otherwise  (a missing part is undefined)
PartOr(parts, k, otherwise) ==
  IF k <= Len(parts) /\ parts[k] # << >> THEN parseInt(parts[k]) ELSE otherwise

\* Math.max(0, Math.min(value, len))
Clamped_Not(value, len) == value

Clamped(value, len) == IF value < 0 THEN 0 ELSE IF value > len THEN len ELSE value

\* idx < 0 ? len + idx : idx
FromEnd(idx, len) == IF idx < 0 THEN len + idx ELSE idx

\* the two for loops: i from start, while i < end (i > end), i += step
RECURSIVE Walk(_, _, _)
Walk(i, end, step) ==
  IF step > 0 THEN IF i < end THEN << i >> \o Walk(i + step, end, step) ELSE << >>
  ELSE IF step < 0 THEN IF i > end THEN << i >> \o Walk(i + step, end, step) ELSE << >>
  ELSE << >>

\* indices.map(i => elements[i]).filter(el => el !== undefined)
\* elements.filter((_, i) => !excludeSet.has(i))
Picked(elements, indices, isExclude) ==
  IF isExclude
  THEN SelectSeq(elements, LAMBDA el : \A k \in 1..Len(indices) : indices[k] # el.node)
  ELSE LET there == SelectSeq(indices, LAMBDA i : i >= 0 /\ i < Len(elements))
       IN [k \in 1..Len(there) |-> elements[there[k] + 1]]

applyArrayIndex(elements, indexExpr) ==
  LET len == Len(elements)
      parts == indexExpr.parts
  IN IF len = 0 THEN << >>
     ELSE IF indexExpr.separator = ":"
     THEN LET start == Clamped(FromEnd(PartOr(parts, 1, 0), len), len)
              end == Clamped(FromEnd(PartOr(parts, 2, len), len), len)
              step == PartOr(parts, 3, 1)
          IN Picked(elements, Walk(start, end, step), indexExpr.exclude)
     ELSE Picked(elements, [k \in 1..Len(parts) |-> FromEnd(parseInt(parts[k]), len)],
                 indexExpr.exclude)

\* an argument that is not given (undefined)
Absent == [absent |-> TRUE]

applyIndexSelector(elements, indexStr, arrayIndex) ==
  IF Len(elements) = 0 THEN << >>
  ELSE IF arrayIndex # Absent THEN applyArrayIndex(elements, arrayIndex)
  ELSE IF indexStr # Absent
  THEN Picked(elements, << FromEnd(parseInt(indexStr.text), Len(elements)) >>, FALSE)
  ELSE elements

\* the texts "0", "2", "4", "8", "12", "-1", "-3", "-12"
IndexTexts ==
  {<< 48 >>, << 50 >>, << 52 >>, << 56 >>, << 49, 50 >>, << 45, 49 >>, << 45, 51 >>,
   << 45, 49, 50 >>}

\* "", "1", "2", "-1", "-2", "0"
StepTexts == {<< >>, << 49 >>, << 50 >>, << 45, 49 >>, << 45, 50 >>, << 48 >>}

RangeBounds == {<< >>, << 48 >>, << 50 >>, << 56 >>, << 45, 49 >>, << 45, 51 >>, << 45, 49, 50 >>}

\* a:b and a:b:s
RangeExprs ==
  {<< a, b >> : a \in RangeBounds, b \in RangeBounds}
    \cup {<< a, b, s >> : a \in RangeBounds, b \in RangeBounds, s \in StepTexts}

\* i and i,j
ListExprs == {<< i >> : i \in IndexTexts} \cup {<< i, j >> : i \in IndexTexts, j \in IndexTexts}

ArrayIndexes ==
  [exclude : BOOLEAN, separator : {":"}, parts : RangeExprs]
    \cup [exclude : BOOLEAN, separator : {","}, parts : ListExprs]

\* what a selector stage hands over: name, name.N, name[...]
IndexCalls ==
  {<< Matches(n), Absent, Absent >> : n \in {0, MaxMatches}}
    \cup {<< Matches(n), [text |-> t], Absent >> : n \in 0..MaxMatches, t \in IndexTexts}
    \cup {<< Matches(n), Absent, a >> : n \in {0, 3, MaxMatches}, a \in ArrayIndexes}

ApplyIndexSelector ==
  /\ parseRun.state = "given" /\ parseRun.fn = "applyIndexSelector"
  /\ parseRun' = ParseCall(parseRun.fn, parseRun.args, "done",
                           applyIndexSelector(parseRun.args[1], parseRun.args[2], parseRun.args[3]))
  /\ UNCHANGED << cacheVars, svcCall, readerVars, managerVars, ruleVars, bridgeVars >>

(***************************************************************************)
(* parseRule (Legado) and parseEsoRule.  The rule texts are made of the    *)
(* pieces  a  ||  &&  {{  }}  @js:  and the blank, up to MaxPieces of      *)
(* them.  Such a text holds no "##", "$", "/" or attribute name, so a text *)
(* that is neither a combination nor a script is a css rule without        *)
(* attribute, regex or replacement.  A parsed rule is the record of the    *)
(* properties that are not undefined.                                      *)
(***************************************************************************)
\* pieces of a rule text
MaxPieces == 5

\* the code units of "a", "||", "&&", "{{", "}}", " ", "@js:"
RulePieces ==
  {<< 97 >>, << 124, 124 >>, << 38, 38 >>, << 123, 123 >>, << 125, 125 >>, << 32 >>,
   << 64, 106, 115, 58 >>}

RECURSIVE TextsOf(_)
TextsOf(n) ==
  IF n = 0 THEN {<< >>} ELSE LET shorter == TextsOf(n - 1)
                             IN shorter \cup {t \o p : t \in shorter, p \in RulePieces}

RuleTexts == TextsOf(MaxPieces)

\* text.startsWith(prefix) at position i
HasAt(text, i, prefix) ==
  /\ i + Len(prefix) - 1 <= Len(text)
  /\ \A k \in 1..Len(prefix) : text[i + k - 1] = prefix[k]

\* text.includes(part)
Includes(text, part) == \E i \in 1..Len(text) : HasAt(text, i, part)

\* text.trim()
RECURSIVE Trim(_)
Trim(text) ==
  IF text = << >> THEN text
  ELSE IF Head(text) = 32 THEN Trim(Tail(text))
  ELSE IF text[Len(text)] = 32 THEN Trim(SubSeq(text, 1, Len(text) - 1))
  ELSE text

\* text.split(separator): the pieces between the occurrences, found left to right
RECURSIVE Split(_, _, _, _)
Split(text, separator, i, from) ==
  IF i > Len(text) THEN << SubSeq(text, from, Len(text)) >>
  ELSE IF HasAt(text, i, separator)
  THEN << SubSeq(text, from, i - 1) >>
         \o Split(text, separator, i + Len(separator), i + Len(separator))
  ELSE Split(text, separator, i + 1, from)

\* text.match(/\{\{(.+?)\}\}/s): the first "{{" that a "}}" follows after at
\* least one code unit, and the nearest such "}}"; << >> when there is none
JsMatch(text) ==
  LET opens == {i \in 1..Len(text) : /\ HasAt(text, i, << 123, 123 >>)
                                     /\ \E j \in (i + 3)..Len(text) : HasAt(text, j, << 125, 125 >>)}
  IN IF opens = {} THEN << >>
     ELSE LET i == CHOOSE o \in opens : \A p \in opens : o <= p
              j == CHOOSE c \in (i + 3)..Len(text) :
                     /\ HasAt(text, c, << 125, 125 >>)
                     /\ \A d \in (i + 3)..(c - 1) : ~HasAt(text, d, << 125, 125 >>)
          IN << SubSeq(text, i + 2, j - 1) >>

\* selectors.join("@") of the trimmed, non-empty parts of remaining.split("@")
RECURSIVE JoinedBy(_, _)
JoinedBy(parts, separator) ==
  IF parts = << >> THEN << >>
  ELSE IF Len(parts) = 1 THEN parts[1]
  ELSE parts[1] \o separator \o JoinedBy(Tail(parts), separator)

ChainSelector(remaining) ==
  LET parts == Split(remaining, << 64 >>, 1, 1)
      trimmed == [k \in 1..Len(parts) |-> Trim(parts[k])]
  IN JoinedBy(SelectSeq(trimmed, LAMBDA part : part # << >>), << 64 >>)

RECURSIVE parseRule(_)
parseRule(rule) ==
  IF rule = << >> THEN [type |-> "css", selector |-> << >>]
  ELSE LET trimmedRule == Trim(rule)
       IN IF Includes(trimmedRule, << 124, 124 >>)
          THEN LET parts == Split(trimmedRule, << 124, 124 >>, 1, 1)
               IN [type |-> "css", selector |-> << >>, combinator |-> "or",
                   subRules |-> [k \in 1..Len(parts) |-> parseRule(Trim(parts[k]))]]
          ELSE IF Includes(trimmedRule, << 38, 38 >>)
          THEN LET parts == Split(trimmedRule, << 38, 38 >>, 1, 1)
               IN [type |-> "css", selector |-> << >>, combinator |-> "and",
                   subRules |-> [k \in 1..Len(parts) |-> parseRule(Trim(parts[k]))]]
          ELSE IF JsMatch(trimmedRule) # << >>
          THEN [type |-> "js", selector |-> << >>, jsCode |-> JsMatch(trimmedRule)[1]]
          ELSE [type |-> "css", selector |-> ChainSelector(trimmedRule)]

RECURSIVE parseEsoRule(_)
parseEsoRule(rule) ==
  IF rule = << >> THEN [type |-> "raw", selector |-> << >>]
  ELSE LET trimmedRule == Trim(rule)
       IN IF Includes(trimmedRule, << 124, 124 >>)
          THEN LET parts == Split(trimmedRule, << 124, 124 >>, 1, 1)
               IN [type |-> "raw", selector |-> << >>, combinator |-> "or",
                   subRules |-> [k \in 1..Len(parts) |-> parseEsoRule(Trim(parts[k]))]]
          ELSE IF Includes(trimmedRule, << 38, 38 >>)
          THEN LET parts == Split(trimmedRule, << 38, 38 >>, 1, 1)
               IN [type |-> "raw", selector |-> << >>, combinator |-> "and",
                   subRules |-> [k \in 1..Len(parts) |-> parseEsoRule(Trim(parts[k]))]]
          ELSE IF HasAt(trimmedRule, 1, << 64, 106, 115, 58 >>)
          THEN [type |-> "js", selector |-> << >>,
                jsCode |-> Trim(SubSeq(trimmedRule, 5, Len(trimmedRule)))]
          ELSE [type |-> "css", selector |-> trimmedRule]

ParseRule ==
  /\ parseRun.state = "given" /\ parseRun.fn = "parseRule"
  /\ parseRun' = ParseCall(parseRun.fn, parseRun.args, "done", parseRule(parseRun.args[1]))
  /\ UNCHANGED << cacheVars, svcCall, readerVars, managerVars, ruleVars, bridgeVars >>

ParseEsoRule ==
  /\ parseRun.state = "given" /\ parseRun.fn = "parseEsoRule"
  /\ parseRun' = ParseCall(parseRun.fn, parseRun.args, "done", parseEsoRule(parseRun.args[1]))
  /\ UNCHANGED << cacheVars, svcCall, readerVars, managerVars, ruleVars, bridgeVars >>

(***************************************************************************)
(* applyRegex (Legado) and applyEsoRegex.  A value is null or a string of  *)
(* up to MaxValueLen code units out of "a", "b" and the blank.  A pattern  *)
(* is a literal text of these, which matches its occurrences from left to  *)
(* right without overlap, or "(", for which new RegExp throws.             *)
(***************************************************************************)
\* code units of a value
MaxValueLen == 4

NullValue == [kind |-> "null"]
Text(units) == [kind |-> "string", units |-> units]

RECURSIVE UnitsOf(_)
UnitsOf(n) ==
  IF n = 0 THEN {<< >>}
  ELSE LET shorter == UnitsOf(n - 1)
       IN shorter \cup {t \o << c >> : t \in {s \in shorter : Len(s) = n - 1}, c \in {97, 98, 32}}

RegexValues == {Text(t) : t \in UnitsOf(MaxValueLen)}

\* "a", "ab", "b", " ", "(" and the empty pattern
Patterns == {[text |-> t] : t \in {<< 97 >>, << 97, 98 >>, << 98 >>, << 32 >>, << 40 >>, << >>}}

\* "", "b", "ab"
Replacements == {[text |-> t] : t \in {<< >>, << 98 >>, << 97, 98 >>}}

\* new RegExp(regex, "g") throws
RegExpThrows(regex) == Includes(regex, << 40 >>)

\* value.replace(re, replacement) with the g flag: every match, left to right
RECURSIVE Replaced(_, _, _, _)
Replaced(value, regex, replacement, i) ==
  IF i > Len(value) THEN << >>
  ELSE IF HasAt(value, i, regex)
  THEN replacement \o Replaced(value, regex, replacement, i + Len(regex))
  ELSE << value[i] >> \o Replaced(value, regex, replacement, i + 1)

\* result.trim() || null
TrimmedOrNull(result) == IF Trim(result) = << >> THEN NullValue ELSE Text(Trim(result))

\* replacement ?? ""
OrEmpty(replacement) == IF replacement = Absent THEN << >> ELSE replacement.text

applyRegex(value, regex, replacement) ==
  IF regex = Absent \/ regex.text = << >> THEN value
  ELSE IF RegExpThrows(regex.text) THEN value
  ELSE TrimmedOrNull(Replaced(value.units, regex.text, OrEmpty(replacement), 1))

applyEsoRegex(value, regex, replacement) ==
  IF value = NullValue \/ value = Text(<< >>) \/ regex = Absent \/ regex.text = << >> THEN value
  ELSE IF RegExpThrows(regex.text) THEN value
  ELSE TrimmedOrNull(Replaced(value.units, regex.text, OrEmpty(replacement), 1))

RegexCalls ==
  {<< v, p, r >> : v \in RegexValues, p \in Patterns \cup {Absent}, r \in Replacements \cup {Absent}}

ApplyRegex ==
  /\ parseRun.state = "given" /\ parseRun.fn = "applyRegex"
  /\ parseRun' = ParseCall(parseRun.fn, parseRun.args, "done",
                           applyRegex(parseRun.args[1], parseRun.args[2], parseRun.args[3]))
  /\ UNCHANGED << cacheVars, svcCall, readerVars, managerVars, ruleVars, bridgeVars >>

ApplyEsoRegex ==
  /\ parseRun.state = "given" /\ parseRun.fn = "applyEsoRegex"
  /\ parseRun' = ParseCall(parseRun.fn, parseRun.args, "done",
                           applyEsoRegex(parseRun.args[1], parseRun.args[2], parseRun.args[3]))
  /\ UNCHANGED << cacheVars, svcCall, readerVars, managerVars, ruleVars, bridgeVars >>

(***************************************************************************)
(* parseUrlRule (Legado) and parseEsoUrlRule.  A URL rule is `url` or      *)
(* `url,{json}`; it is kept as the URL part and the configuration the JSON *)
(* gives.  The URL parts are made of the pieces  http://  https://  /  s   *)
(* h  {{key}}, up to MaxUrlPieces of them; they hold no "@", so the header *)
(* and charset suffixes of the old format do not occur.                    *)
(***************************************************************************)
\* pieces of the URL part of a URL rule
MaxUrlPieces == 3

HttpText == << 104, 116, 116, 112, 58, 47, 47 >>
HttpsText == << 104, 116, 116, 112, 115, 58, 47, 47 >>
KeyPlaceholder == << 123, 123, 107, 101, 121, 125, 125 >>

UrlPieces == {HttpText, HttpsText, << 47 >>, << 115 >>, << 104 >>, KeyPlaceholder}

RECURSIVE UrlPartsOf(_)
UrlPartsOf(n) ==
  IF n = 0 THEN {<< >>} ELSE LET shorter == UrlPartsOf(n - 1)
                             IN shorter \cup {t \o p : t \in shorter, p \in UrlPieces}

\* the configurations: none, and {"method":"post","body":"{{key}}"}
UrlConfigs == {Absent, [method |-> "post", body |-> KeyPlaceholder]}

UrlRules == [url : UrlPartsOf(MaxUrlPieces) \ {<< >>}, config : UrlConfigs]

\* "k" and "/k"
SearchKeys == {[text |-> << 107 >>], [text |-> << 47, 107 >>]}

\* "", "http://h", "http://h/", "http://h//"
BaseUrls ==
  {[text |-> << >>], [text |-> HttpText \o << 104 >>], [text |-> HttpText \o << 104, 47 >>],
   [text |-> HttpText \o << 104, 47, 47 >>]}

\* encodeURIComponent of ASCII text: letters, digits and - _ . ! ~ * ' ( )
\* stay, any other code unit becomes % and two upper-case hex digits
RECURSIVE encodeURIComponent(_)
encodeURIComponent(text) ==
  IF text = << >> THEN << >>
  ELSE LET c == Head(text)
           hex(d) == IF d < 10 THEN 48 + d ELSE 55 + d
       IN (IF \/ c \in 48..57 \/ c \in 65..90 \/ c \in 97..122
              \/ c \in {45, 95, 46, 33, 126, 42, 39, 40, 41}
           THEN << c >>
           ELSE << 37, hex(c \div 16), hex(c % 16) >>) \o encodeURIComponent(Tail(text))

\* the texts hold none of the other placeholders (searchKey, $key, ...)
replaceKeyPlaceholders(str, rawKey, encodedKey) ==
  Replaced(Replaced(str, KeyPlaceholder, encodedKey, 1), KeyPlaceholder, rawKey, 1)

\* baseUrl.replace(/\/$/, ""): one trailing slash only
WithoutTrailingSlashes_One(baseUrl) ==
  IF baseUrl # << >> /\ baseUrl[Len(baseUrl)] = 47
  THEN SubSeq(baseUrl, 1, Len(baseUrl) - 1)
  ELSE baseUrl

\* baseUrl.replace(/\/+$/, "")
RECURSIVE WithoutTrailingSlashes(_)
WithoutTrailingSlashes(baseUrl) ==
  IF baseUrl # << >> /\ baseUrl[Len(baseUrl)] = 47
  THEN WithoutTrailingSlashes(SubSeq(baseUrl, 1, Len(baseUrl) - 1))
  ELSE baseUrl

\* the step for relative URLs
OnBase(url, baseUrl) ==
  IF /\ baseUrl # Absent /\ baseUrl.text # << >>
     /\ ~HasAt(url, 1, HttpText) /\ ~HasAt(url, 1, HttpsText)
  THEN WithoutTrailingSlashes(baseUrl.text) \o (IF HasAt(url, 1, << 47 >>) THEN url ELSE << 47 >> \o url)
  ELSE url

\* what the JSON configuration sets
ConfiguredMethod(config) ==
  IF config # Absent /\ config.method = "post" THEN "POST" ELSE "GET"

parseUrlRule(urlRule, searchKey, baseUrl) ==
  LET keyed == searchKey # Absent /\ searchKey.text # << >>
      url == IF keyed
             THEN replaceKeyPlaceholders(urlRule.url, searchKey.text, encodeURIComponent(searchKey.text))
             ELSE urlRule.url
      resolved == [url |-> Trim(OnBase(url, baseUrl)), method |-> ConfiguredMethod(urlRule.config)]
  IN IF urlRule.config = Absent THEN resolved
     ELSE [url |-> resolved.url, method |-> resolved.method,
           body |-> IF keyed
                    THEN replaceKeyPlaceholders(urlRule.config.body, searchKey.text,
                                                encodeURIComponent(searchKey.text))
                    ELSE urlRule.config.body]

\* the loop over Object.entries(variables)
RECURSIVE Interpolated(_, _, _)
Interpolated(text, variables, k) ==
  IF variables = Absent \/ k > Len(variables.entries) THEN text
  ELSE Interpolated(Replaced(text, << 123, 123 >> \o variables.entries[k].name \o << 125, 125 >>,
                             encodeURIComponent(variables.entries[k].value), 1),
                    variables, k + 1)

parseEsoUrlRule(urlRule, variables, baseUrl) ==
  LET resolved == [url |-> Trim(OnBase(Interpolated(urlRule.url, variables, 1), baseUrl)),
                   method |-> ConfiguredMethod(urlRule.config)]
  IN IF urlRule.config = Absent THEN resolved
     ELSE [url |-> resolved.url, method |-> resolved.method,
           body |-> Interpolated(urlRule.config.body, variables, 1)]

\* { key: value }
Variables(key) == [entries |-> << [name |-> << 107, 101, 121 >>, value |-> key.text] >>]

ParseUrlRule ==
  /\ parseRun.state = "given" /\ parseRun.fn = "parseUrlRule"
  /\ parseRun' = ParseCall(parseRun.fn, parseRun.args, "done",
                           parseUrlRule(parseRun.args[1], parseRun.args[2], parseRun.args[3]))
  /\ UNCHANGED << cacheVars, svcCall, readerVars, managerVars, ruleVars, bridgeVars >>

ParseEsoUrlRule ==
  /\ parseRun.state = "given" /\ parseRun.fn = "parseEsoUrlRule"
  /\ parseRun' = ParseCall(parseRun.fn, parseRun.args, "done",
                           parseEsoUrlRule(parseRun.args[1], parseRun.args[2], parseRun.args[3]))
  /\ UNCHANGED << cacheVars, svcCall, readerVars, managerVars, ruleVars, bridgeVars >>

(***************************************************************************)
(* vscode.ts: requests to the extension.                                   *)
(***************************************************************************)
\* requests made in a session of the webview
MaxRequests == 2
\* messages the window receives in a session
MaxMessages == 3

\* `req_${Date.now()}_${++requestIdCounter}`, as UTF-16 code units
generateRequestId(now, counter) ==
  << 114, 101, 113, 95 >> \o Digits(now) \o << 95 >> \o Digits(counter)

TIMEOUT_ERROR == [message |-> "timeout", code |-> "TIMEOUT_ERROR"]
UNKNOWN_ERROR == [message |-> "unknown", code |-> "UNKNOWN_ERROR"]

\* what a promise's resolve and reject were called with
Resolved(value) == [call |-> "resolve", with |-> value]
Rejected(reason) == [call |-> "reject", with |-> reason]

\* the module's state when it has been loaded.  timers: the timeouts of the
\* window that are pending, by timer id, each with the request id and the
\* promise of its callback's closure; promises: the promises requestExtension
\* returned, in order, each with the calls of its resolve and reject and, as
\* history, the responses naming its request and the timeout that occurred
NewBridge ==
  [requestIdCounter |-> 0, now |-> 0, pendingRequests |-> EmptyMap, timers |-> EmptyMap,
   timerCount |-> 0, posted |-> << >>, promises |-> << >>, received |-> 0]

Settled(promises, promise, call) ==
  [promises EXCEPT ![promise].calls = Append(@, call)]

Heard(promises, requestId, event) ==
  [p \in 1..Len(promises) |->
     IF promises[p].requestId = requestId
     THEN [promises[p] EXCEPT !.heard = Append(@, event)]
     ELSE promises[p]] \o << >>

clearTimeout_Kept(timers, timer) == timers

clearTimeout(timers, timer) == MapDrop(timers, {timer})

\* lines 69-86; now is Date.now()
requestExtension(b, now) ==
  [b EXCEPT
     !.requestIdCounter = @ + 1,
     !.now = now,
     !.timerCount = @ + 1,
     !.timers = MapPut(@, b.timerCount + 1,
                       [requestId |-> generateRequestId(now, b.requestIdCounter + 1),
                        promise |-> Len(b.promises) + 1]),
     !.pendingRequests = MapPut(@, generateRequestId(now, b.requestIdCounter + 1),
                                [promise |-> Len(b.promises) + 1, timer |-> b.timerCount + 1]),
     !.posted = Append(@, generateRequestId(now, b.requestIdCounter + 1)),
     !.promises = Append(@, [requestId |-> generateRequestId(now, b.requestIdCounter + 1),
                             calls |-> << >>, heard |-> << >>])]

\* lines 77-80: the callback of the timer
onTimeout(b, timer) ==
  [b EXCEPT
     !.timers = MapDrop(@, {timer}),
     !.pendingRequests = MapDrop(@, {b.timers[timer].requestId}),
     !.promises = Settled(@, b.timers[timer].promise, Rejected(TIMEOUT_ERROR))]

\* line 39: !message || message.command !== "response" || !message.requestId
NotAResponse(message) ==
  \/ "command" \notin DOMAIN message
  \/ message.command # "response"
  \/ "requestId" \notin DOMAIN message
  \/ message.requestId = << >>

\* lines 47-54
Settlement(message) ==
  IF "payload" \in DOMAIN message /\ message.payload.success
  THEN Resolved(message.payload.data)
  ELSE IF "payload" \in DOMAIN message /\ "error" \in DOMAIN message.payload
  THEN Rejected(message.payload.error)
  ELSE Rejected(UNKNOWN_ERROR)

\* lines 37-55: the message listener
onMessage(b, message) ==
  IF NotAResponse(message) THEN b
  ELSE IF message.requestId \notin DOMAIN b.pendingRequests THEN b
  ELSE [b EXCEPT
          !.pendingRequests = MapDrop(@, {message.requestId}),
          !.timers = clearTimeout(@, b.pendingRequests[message.requestId].timer),
          !.promises = Settled(@, b.pendingRequests[message.requestId].promise,
                               Settlement(message))]

\* the payloads of the extension: a success with its data, a failure with or
\* without an error object
Payloads ==
  { [success |-> TRUE, data |-> "data"],
    [success |-> FALSE, error |-> [message |-> "refused", code |-> "HTTP_ERROR"]],
    [success |-> FALSE] }

\* what the window may receive: responses to the requests posted so far, to a
\* request that was never made and with an empty or a missing requestId, with
\* or without a payload, other commands, and data that is null
MessagesFor(b) ==
  LET ids == {b.posted[i] : i \in 1..Len(b.posted)} \cup {generateRequestId(0, 0), << >>}
  IN [command : {"response"}, requestId : ids, payload : Payloads]
       \cup [command : {"response"}, requestId : ids]
       \cup [command : {"response"}, payload : Payloads]
       \cup [command : {"themeChanged"}, requestId : ids, payload : Payloads]
       \cup {[null |-> TRUE]}

RequestExtension ==
  /\ bridge.requestIdCounter < MaxRequests
  /\ \E now \in {bridge.now, bridge.now + 1} : bridge' = requestExtension(bridge, now)
  /\ UNCHANGED << cacheVars, svcCall, readerVars, managerVars, ruleVars, parseVars >>

OnMessage ==
  /\ bridge.received < MaxMessages
  /\ \E message \in MessagesFor(bridge) :
       \E b \in {onMessage(bridge, message)} :
         bridge' = [b EXCEPT !.received = @ + 1,
                             !.promises = IF NotAResponse(message) THEN @
                                          ELSE Heard(@, message.requestId,
                                                     [event |-> "response", message |-> message])]
  /\ UNCHANGED << cacheVars, svcCall, readerVars, managerVars, ruleVars, parseVars >>

OnTimeout ==
  /\ \E timer \in DOMAIN bridge.timers :
       \E b \in {onTimeout(bridge, timer)} :
         bridge' = [b EXCEPT !.promises = Heard(@, bridge.timers[timer].requestId,
                                                [event |-> "timeout"])]
  /\ UNCHANGED << cacheVars, svcCall, readerVars, managerVars, ruleVars, parseVars >>

(***************************************************************************)
(* Specifications.  Each one runs one part of the program and leaves the   *)
(* state of the others as it is.                                           *)
(***************************************************************************)
vars == << cacheVars, svcCall, readerVars, managerVars, ruleVars, parseVars, bridgeVars >>

IdleService == svcCall = NoCall

\* the view as it is mounted, with the sources `ids` installed
ReaderStarts(ids) ==
  /\ installed = ids
  /\ view = InitialView
  /\ shelf = << >>
  /\ tasks = {}
  /\ clicks = 0
  /\ overlapped = FALSE
  /\ lastSwitch = NoSwitch
  /\ lastFallback = FallbackEnd(NoError, NoBook, FALSE, InitialView)

\* the manager as it is constructed over the stored list
ManagerStarts(stored) ==
  /\ manager = NewManager(stored)
  /\ lastCall = NoManagerCall
  /\ calls = 0

RulesIdle == ruleRun = NoRun

ParsingIdle == parseRun = NoParse

BridgeIdle == bridge = NewBridge

(***************************************************************************)
(* SpecCache: the cache manager with entry writes that may hit the quota;  *)
(* the metadata write succeeds.                                            *)
(***************************************************************************)
CacheInit ==
  /\ \E n \in {0, NumFill} : CacheStartsWith(n)
  /\ budget = MaxOps
  /\ IdleService
  /\ ReaderStarts(SourceIds)
  /\ ManagerStarts(<< >>)
  /\ RulesIdle
  /\ ParsingIdle
  /\ BridgeIdle

CacheWrite ==
  /\ budget > 0
  /\ \E u \in CacheUrls, c \in CacheContents :
       \E f \in {"ok", "quota_retry_ok", "quota_retry_fail"} : CacheContent(u, c, f, FALSE)
  /\ UNCHANGED << svcCall, readerVars, managerVars, ruleVars, parseVars, bridgeVars >>

CacheRead ==
  /\ \E u \in ReadUrls : GetCachedContent(u, FALSE)
  /\ UNCHANGED << svcCall, readerVars, managerVars, ruleVars, parseVars, bridgeVars >>

CacheClear == ClearAllCache(FALSE) /\ UNCHANGED << svcCall, readerVars, managerVars, ruleVars, parseVars, bridgeVars >>

CacheNext == CacheWrite \/ CacheRead \/ CacheClear

SpecCache == CacheInit /\ [][CacheNext]_vars

(***************************************************************************)
(* SpecCacheFaults: the cache manager with every storage write able to     *)
(* throw: the entry write of cacheContent (quota or another error), the    *)
(* metadata write of saveMeta, the refreshing write of getCachedContent.   *)
(***************************************************************************)
CacheFaultsInit ==
  /\ \E n \in {0, NumFill} : CacheStartsWith(n)
  /\ budget = MaxFaultOps
  /\ IdleService
  /\ ReaderStarts(SourceIds)
  /\ ManagerStarts(<< >>)
  /\ RulesIdle
  /\ ParsingIdle
  /\ BridgeIdle

FaultyWrite ==
  /\ \E u \in CacheUrls, c \in CacheContents, f \in EntryFaults, metaFault \in BOOLEAN :
       CacheContent(u, c, f, metaFault)
  /\ UNCHANGED << svcCall, readerVars, managerVars, ruleVars, parseVars, bridgeVars >>

FaultyRead ==
  /\ \E u \in ReadUrls, writeFault \in BOOLEAN : GetCachedContent(u, writeFault)
  /\ UNCHANGED << svcCall, readerVars, managerVars, ruleVars, parseVars, bridgeVars >>

FaultyClear ==
  /\ \E metaFault \in BOOLEAN : ClearAllCache(metaFault)
  /\ UNCHANGED << svcCall, readerVars, managerVars, ruleVars, parseVars, bridgeVars >>

CacheFaultsNext == FaultyWrite \/ FaultyRead \/ FaultyClear

SpecCacheFaults == CacheFaultsInit /\ [][CacheFaultsNext]_vars

(***************************************************************************)
(* SpecRecache: NumRecache urls are cached with a one-byte content, then   *)
(* each of them is cached again with a content of the largest size a       *)
(* chapter may have.                                                       *)
(***************************************************************************)
TrackedUrls == getMeta(metaStore, clock).urls

KeysOfSize(st, size) == {k \in DOMAIN st : st[k].size = size}

RecacheInit ==
  /\ CacheStartsWith(0)
  /\ budget = 2 * NumRecache
  /\ IdleService
  /\ ReaderStarts(SourceIds)
  /\ ManagerStarts(<< >>)
  /\ RulesIdle
  /\ ParsingIdle
  /\ BridgeIdle

RecacheFirst ==
  /\ \E i \in 1..NumRecache :
       /\ i = Len(TrackedUrls) + 1
       /\ CacheContent(FillerUrl(i), ContentTiny, "ok", FALSE)
  /\ UNCHANGED << svcCall, readerVars, managerVars, ruleVars, parseVars, bridgeVars >>

RecacheAgain ==
  /\ \E i \in 1..NumRecache :
       /\ Len(TrackedUrls) = NumRecache
       /\ i = Cardinality(KeysOfSize(store, BlobSize(ContentMax))) + 1
       /\ CacheContent(FillerUrl(i), ContentMax, "ok", FALSE)
  /\ UNCHANGED << svcCall, readerVars, managerVars, ruleVars, parseVars, bridgeVars >>

RecacheNext == RecacheFirst \/ RecacheAgain

SpecRecache == RecacheInit /\ [][RecacheNext]_vars

(***************************************************************************)
(* SpecService: one call of the book service, after the chapter cache has  *)
(* or has not been given the chapter.                                      *)
(***************************************************************************)
ServiceInit ==
  /\ CacheStartsWith(0)
  /\ budget = 1
  /\ IdleService
  /\ ReaderStarts(SourceIds)
  /\ ManagerStarts(<< >>)
  /\ RulesIdle
  /\ ParsingIdle
  /\ BridgeIdle

ServiceCache ==
  /\ svcCall.op = "none"
  /\ \E u \in {ChapterUrlA, TitledUrl} : CacheContent(u, ContentA, "ok", FALSE)
  /\ UNCHANGED << svcCall, readerVars, managerVars, ruleVars, parseVars, bridgeVars >>

ServiceSearch ==
  /\ svcCall.op = "none"
  /\ \E source \in Sources, response \in {Failure} \cup SearchPages :
       ~source.urlRule /\ ~source.replaceRegex /\ SearchBooks(source, response)
  /\ UNCHANGED << cacheVars, readerVars, managerVars, ruleVars, parseVars, bridgeVars >>

ServiceChapters ==
  /\ svcCall.op = "none"
  /\ \E source \in Sources, first \in {Failure} \cup BookPages,
        response \in {Failure} \cup TocPages :
       /\ source.searchUrl /\ ~source.replaceRegex
       /\ (source.kind = "legado" /\ source.urlRule) \/ first = Failure
       /\ GetChapters(source, BookUrl, first, response)
  /\ UNCHANGED << cacheVars, readerVars, managerVars, ruleVars, parseVars, bridgeVars >>

ServiceContent ==
  /\ svcCall.op = "none"
  /\ \E source \in Sources, chapter \in {ChapterUrlA, ChapterUrlB},
        response \in {Failure} \cup ContentPages :
       /\ source.searchUrl
       /\ source.kind = "eso" \/ ~source.urlRule
       /\ GetContent(source, chapter, response)
  /\ UNCHANGED << cacheVars, readerVars, managerVars, ruleVars, parseVars, bridgeVars >>

ServiceNext == ServiceCache \/ ServiceSearch \/ ServiceChapters \/ ServiceContent

SpecService == ServiceInit /\ [][ServiceNext]_vars

(***************************************************************************)
(* SpecReader: a session of the reading view.  The sources S1 and S3 are   *)
(* installed, S2 may be; the shelf starts empty.                           *)
(***************************************************************************)
ReaderInit ==
  /\ CacheStartsWith(0)
  /\ budget = 0
  /\ IdleService
  /\ ManagerStarts(<< >>)
  /\ RulesIdle
  /\ ParsingIdle
  /\ BridgeIdle
  /\ \E ids \in {SourceIds, SourceIds \ {"S2"}} : ReaderStarts(ids)

ReaderNext ==
  SelectBook \/ ReadChapter \/ GoBack \/ TryRestore \/ ChaptersArrive \/ ContentArrives
    \/ AlternativeArrives

SpecReader == ReaderInit /\ [][ReaderNext]_vars

(***************************************************************************)
(* SpecSources: calls of the source manager, constructed over a storage    *)
(* that is empty or holds one source.                                      *)
(***************************************************************************)
SourcesInit ==
  /\ CacheStartsWith(0)
  /\ budget = 0
  /\ IdleService
  /\ ReaderStarts(SourceIds)
  /\ RulesIdle
  /\ ParsingIdle
  /\ BridgeIdle
  /\ \E stored \in {<< >>, << Stringified([id |-> "S1", name |-> "a", url |-> HostAa,
                                            enabled |-> TRUE, format |-> "legado",
                                            raw |-> [bookSourceName |-> "a",
                                                     bookSourceUrl |-> HostAa]]) >>} :
       ManagerStarts(stored)

SourcesNext ==
  Add \/ Update \/ Upsert \/ Delete \/ SetEnabled \/ DeleteMany \/ Clear \/ Import \/ OnChange

SpecSources == SourcesInit /\ [][SourcesNext]_vars

(***************************************************************************)
(* SpecRules: one run of a rule executor on a combined rule of up to       *)
(* MaxSubRules sub-rules, given an element, a string or nothing.           *)
(***************************************************************************)
RulesInit ==
  /\ CacheStartsWith(0)
  /\ budget = 0
  /\ IdleService
  /\ ReaderStarts(SourceIds)
  /\ ManagerStarts(<< >>)
  /\ ParsingIdle
  /\ BridgeIdle
  /\ \E executor \in {"executeEsoRule", "executeRule"}, rule \in CombinedRules,
        element \in {Element, Str("x"), Str(""), NullResult} :
       ruleRun = RuleRun(executor, rule, element, "given", Ran(NullResult, << >>))

RulesNext == ExecuteEsoRule \/ ExecuteRule

SpecRules == RulesInit /\ [][RulesNext]_vars


(***************************************************************************)
(* SpecParsing: one call of a text function of the rule parsers.           *)
(***************************************************************************)
ParsingInit ==
  /\ CacheStartsWith(0)
  /\ budget = 0
  /\ IdleService
  /\ ReaderStarts(SourceIds)
  /\ ManagerStarts(<< >>)
  /\ RulesIdle
  /\ BridgeIdle
  /\ \/ \E args \in IndexCalls : parseRun = ParseCall("applyIndexSelector", args, "given", << >>)
     \/ \E fn \in {"parseRule", "parseEsoRule"}, rule \in RuleTexts :
          parseRun = ParseCall(fn, << rule >>, "given", << >>)
     \/ \E args \in RegexCalls : parseRun = ParseCall("applyRegex", args, "given", << >>)
     \/ \E args \in RegexCalls \cup {<< NullValue, p, Absent >> : p \in Patterns} :
          parseRun = ParseCall("applyEsoRegex", args, "given", << >>)
     \/ \E urlRule \in UrlRules, key \in SearchKeys \cup {Absent}, baseUrl \in BaseUrls \cup {Absent} :
          \/ parseRun = ParseCall("parseUrlRule", << urlRule, key, baseUrl >>, "given", << >>)
          \/ parseRun = ParseCall("parseEsoUrlRule",
                                  << urlRule, IF key = Absent THEN Absent ELSE Variables(key), baseUrl >>,
                                  "given", << >>)

ParsingNext ==
  \/ ApplyIndexSelector
  \/ ParseRule \/ ParseEsoRule
  \/ ApplyRegex \/ ApplyEsoRegex
  \/ ParseUrlRule \/ ParseEsoUrlRule

SpecParsing == ParsingInit /\ [][ParsingNext]_vars

(***************************************************************************)
(* SpecBridge: a session of the webview's requests to the extension: the   *)
(* requests, the messages the window receives and the timeouts, in any     *)
(* order.                                                                  *)
(***************************************************************************)
BridgeInit ==
  /\ CacheStartsWith(0)
  /\ budget = 0
  /\ IdleService
  /\ ReaderStarts(SourceIds)
  /\ ManagerStarts(<< >>)
  /\ RulesIdle
  /\ ParsingIdle
  /\ BridgeIdle

BridgeNext == RequestExtension \/ OnMessage \/ OnTimeout

SpecBridge == BridgeInit /\ [][BridgeNext]_vars

(***************************************************************************)
(* Properties of the chapter cache.                                        *)
(***************************************************************************)
\* the bytes of the chapter entries present in storage
RECURSIVE SumBySize(_, _)
SumBySize(st, sizes) ==
  IF sizes = {} THEN 0
  ELSE LET size == CHOOSE x \in sizes : TRUE
       IN size * Cardinality(KeysOfSize(st, size)) + SumBySize(st, sizes \ {size})

StoredSize(st) == SumBySize(st, {st[k].size : k \in DOMAIN st})

C2_ReadsOnlyOwnContent ==
  (lastOp.name = "getCachedContent" /\ lastOp.ok) =>
    /\ lastOp.url \in DOMAIN cachedUnder
    /\ cachedUnder[lastOp.url] = lastOp.value

\* C3: the sizes of the chapter entries present in storage never add up to
\* more than the 10MB cap.
C3_StoredSizeWithinCap == StoredSize(store) <= MAX_CACHE_SIZE

(***************************************************************************)
(* Properties of the book service.                                         *)
(***************************************************************************)
ConfigErrors == {"NoSearchRule", "NoTocRule", "NoContentRule"}

ServiceOps == {"searchBooks", "getChapters", "getContent"}

\* the page the call's last request was answered with
LastResponse(call) == call.responses[Len(call.responses)]

\* the elements of the fetched chapter page that have a name and a url
Survivors(call) ==
  IF call.source.rule # "css" THEN {}
  ELSE {i \in 1..Len(LastResponse(call).list) :
          /\ LastResponse(call).list[i].name # ""
          /\ LastResponse(call).list[i].url # NoUrl}

FetchedChapters(call) ==
  /\ call.op = "getChapters"
  /\ call.source.rule # "absent"
  /\ LastResponse(call).success

\* C4: getContent for a chapter whose content url has a cached entry issues
\* no HTTP request.
C4_CachedContentNeedsNoRequest ==
  (/\ svcCall.op = "getContent"
   /\ svcCall.source.rule # "absent"
   /\ ~svcCall.source.urlRule
   /\ getCacheKey(svcCall.target) \in DOMAIN store)
  => svcCall.requests = << >>

HasBundle(call) ==
  /\ call.source.rule # "absent"
  /\ call.op = "searchBooks" => call.source.searchUrl

\* C8 as stated: a call whose source lacks the list or content selector, or
\* the url the call needs, rejects with a configuration error before any
\* HTTP request.
C8_MissingSelectorFailsFast ==
  (svcCall.op \in ServiceOps /\ (~HasBundle(svcCall) \/ svcCall.source.rule = "empty"))
  => (svcCall.rejected /\ svcCall.error \in ConfigErrors /\ svcCall.requests = << >>)

\* C8 amended: a call whose source lacks the rule bundle of the operation
\* (or, for a search, the search url) rejects with a configuration error
\* before any HTTP request; with the bundle present the request is issued,
\* also when the bundle's selector is empty.
C8_MissingBundleFailsFast ==
  svcCall.op \in ServiceOps =>
    IF HasBundle(svcCall)
      THEN svcCall.requests # << >> /\ svcCall.error \notin ConfigErrors
      ELSE svcCall.rejected /\ svcCall.error \in ConfigErrors
           /\ svcCall.requests = << >>

\* C8 witness: getChapters on a Legado source without ruleToc whose
\* ruleBookInfo.tocUrl would have fetched the book page first.
C8_RejectedBeforeBookPage ==
  /\ svcCall.op = "getChapters"
  /\ svcCall.source.kind = "legado"
  /\ svcCall.source.rule = "absent"
  /\ svcCall.source.urlRule
  /\ svcCall.rejected
  /\ svcCall.error = "NoTocRule"
  /\ svcCall.requests = << >>

(***************************************************************************)
(* Properties of the reading view.                                         *)
(***************************************************************************)
\* the recorded alternatives of a book that trySwitchToAlternative can ask:
\* those of another source than the book's, whose source is installed
Askable(book) ==
  SelectSeq(book.alternativeSources,
            LAMBDA item : item.sourceId # book.sourceId /\ item.sourceId \in installed)

\* C5: when a read at index i has failed on the source of the book and an
\* alternative has answered getChapters with n > 0 chapters, the sources asked
\* up to it are the recorded alternatives in their order without the entry of
\* the failing source, the book has the source and the URL of that
\* alternative, and the read is retried there at index max(0, min(i, n - 1)).
C5_FallbackSwitchesInOrderAndClamps ==
  lastSwitch.original # NoBook =>
    /\ Len(lastSwitch.tried) \in 1..Len(Askable(lastSwitch.original))
    /\ \A k \in 1..Len(lastSwitch.tried) :
         lastSwitch.tried[k] = Askable(lastSwitch.original)[k].sourceId
    /\ lastSwitch.book.name = lastSwitch.original.name
    /\ lastSwitch.book.sourceId = Askable(lastSwitch.original)[Len(lastSwitch.tried)].sourceId
    /\ lastSwitch.book.bookUrl = Askable(lastSwitch.original)[Len(lastSwitch.tried)].bookUrl
    /\ lastSwitch.retry.pc = "content"
    /\ lastSwitch.retry.source = lastSwitch.book.sourceId
    /\ lastSwitch.retry.chapter.url = lastSwitch.book.bookUrl
    /\ lastSwitch.retry.chapter.index = lastSwitch.retry.index
    /\ lastSwitch.retry.index =
         (IF lastSwitch.failedIndex > lastSwitch.count - 1
          THEN lastSwitch.count - 1 ELSE lastSwitch.failedIndex)

\* C5 witness: the read of the last chapter of a LongBook failed on S1, S2
\* was asked first and had no chapters to give, S3 answered a ShortBook and
\* the read is retried at its last chapter.
C5_SwitchedToSecondAlternative ==
  /\ lastSwitch.original.sourceId = "S1"
  /\ lastSwitch.failedIndex = LongBook - 1
  /\ lastSwitch.count = ShortBook
  /\ lastSwitch.tried = << "S2", "S3" >>
  /\ lastSwitch.book.sourceId = "S3"
  /\ lastSwitch.retry.index = ShortBook - 1
  /\ ~lastSwitch.overlapped

\* C6: when a read has failed on the source of the book and no alternative
\* ended in a successful read, the error shown is the error of that first
\* read and the book is still on the source it failed on.
C6_OriginalErrorIsShown ==
  (lastFallback.original # NoBook /\ ~lastFallback.success /\ ~lastFallback.overlapped) =>
    /\ lastFallback.shown = lastFallback.message
    /\ lastFallback.book.sourceId = lastFallback.original.sourceId

\* C9: when reads have overlapped and all of them have been answered, the
\* content shown is the content of chapters[currentChapterIndex] of the
\* selected book.
C9_ShownContentIsCurrentChapter ==
  (overlapped /\ tasks = {} /\ view.selectedBook # NoBook /\ view.content # << >>
     /\ view.error = NoError) =>
    /\ view.currentChapterIndex < Len(view.chapters)
    /\ view.content = << view.chapters[view.currentChapterIndex + 1] >>

(***************************************************************************)
(* Properties of the source manager.                                       *)
(***************************************************************************)
Known(map, id) == Cardinality({i \in 1..Len(map) : map[i].id = id})

\* C10: add of an id the manager has and update of an id it does not have
\* return false and leave the map, the stored list, the callbacks and what
\* they were delivered as they were; after upsert the map holds the given
\* source, once, under its id.
C10_RefusalsChangeNothing ==
  /\ (lastCall.op = "add" /\ Known(lastCall.before.sources, lastCall.source.id) > 0) =>
       (~lastCall.ret /\ manager = lastCall.before)
  /\ (lastCall.op = "update" /\ Known(lastCall.before.sources, lastCall.source.id) = 0) =>
       (~lastCall.ret /\ manager = lastCall.before)
  /\ lastCall.op = "upsert" =>
       /\ Known(manager.sources, lastCall.source.id) = 1
       /\ \E i \in 1..Len(manager.sources) : manager.sources[i] = lastCall.source

\* C10 witness: add was refused for a source whose id is taken by a source
\* of another name, while a callback is registered.
C10_AddRefusedWithSubscriber ==
  /\ lastCall.op = "add"
  /\ ~lastCall.ret
  /\ \A i \in 1..Len(manager.sources) : manager.sources[i] # lastCall.source
  /\ Len(manager.onChangeCallbacks) > 0

\* C11: after a call that changed the source map, every callback has been
\* called once for each time it was registered when the call began.
C11_EverySubscriberCalledOnce ==
  (lastCall.op \in {"add", "update", "upsert", "delete", "deleteMany", "clear", "setEnabled"}
     /\ lastCall.ret) =>
    \A c \in Callbacks :
      manager.delivered[c].count =
        lastCall.before.delivered[c].count + Occurrences(lastCall.before.onChangeCallbacks, c)

\* C12: while no storage write has failed, a manager constructed from the
\* stored list holds the sources of the in-memory map, in the same order and
\* with the same field values.
C12_StorageHoldsTheMap ==
  manager.failedWrites = 0 => NewManager(manager.stored).sources = manager.sources

\* C12 witness: a stored source has been disabled with every write succeeding
C12_DisabledAndSaved ==
  /\ lastCall.op = "setEnabled" /\ lastCall.ret
  /\ manager.failedWrites = 0
  /\ \E i \in 1..Len(manager.sources) :
       ~manager.sources[i].enabled /\ lastCall.before.sources[i].enabled

\* an entry the importer cannot turn into a source
InvalidEntry(dialect, entry) ==
  IF dialect = "eso" THEN parseEsoSourceThrows(entry) ELSE ~ValidLegado(entry)

ValidEntries(wire) ==
  SelectSeq(wire.entries, LAMBDA entry : ~InvalidEntry(wire.dialect, entry))

\* the source the importer makes of a valid entry
Converted(dialect, entry) ==
  IF dialect = "eso" THEN convertEsoToUnified(parseEsoSource(entry))
  ELSE convertLegadoToUnified(entry)

\* C13: after the import of a recognized wire string of n entries, k of them
\* invalid, success is n - k, failed is k, errors holds k messages and the
\* map holds a source under the id of every valid entry.
C13_ImportCountsEveryEntry ==
  (lastCall.op = "import" /\ detectSourceFormat(lastCall.wire) # "null") =>
    LET n == Len(lastCall.wire.entries)
        k == n - Len(ValidEntries(lastCall.wire))
    IN /\ lastCall.result.success = n - k
       /\ lastCall.result.failed = k
       /\ Len(lastCall.result.errors) = k
       /\ \A i \in 1..(n - k) :
            Has(manager.sources, Converted(lastCall.wire.dialect, ValidEntries(lastCall.wire)[i]).id)

\* C14: after an import, the source of every valid entry has a defined,
\* non-empty id, and importing the same wire string again leaves the number
\* of stored sources as it is.
C14_ImportedIdsDefinedAndStable ==
  lastCall.op = "import" =>
    /\ \A i \in 1..Len(ValidEntries(lastCall.wire)) :
         Converted(lastCall.wire.dialect, ValidEntries(lastCall.wire)[i]).id \notin {Undefined, ""}
    /\ Len(import(manager, lastCall.wire, FALSE).manager.sources) = Len(manager.sources)

\* C15: after the import of a wire string whose valid entries differ from
\* one another into an empty manager, the export in the same dialect holds
\* exactly the valid entries of the string, in their order.
C15_ExportReturnsTheValidEntries ==
  (/\ lastCall.op = "import"
   /\ lastCall.before.sources = << >>
   /\ \A i, j \in 1..Len(ValidEntries(lastCall.wire)) :
        i # j => ValidEntries(lastCall.wire)[i] # ValidEntries(lastCall.wire)[j]) =>
    export(manager, lastCall.wire.dialect).entries =
      [i \in 1..Len(ValidEntries(lastCall.wire)) |->
         IF lastCall.wire.dialect = "eso"
         THEN encodeEsoSource(parseEsoSource(ValidEntries(lastCall.wire)[i]))
         ELSE ValidEntries(lastCall.wire)[i]] \o << >>

(***************************************************************************)
(* Properties of the cache manager under failing storage writes.           *)
(***************************************************************************)
\* C16: in the state clearAllCache leaves, getCachedContent returns null for
\* every url for which a cacheContent call returned true, and getCacheStats
\* reports count 0 and size 0.
C16_ClearLeavesNothing ==
  lastOp.name = "clearAllCache" =>
    /\ \A u \in DOMAIN cachedUnder :
         getCachedContent(store, u, clock + 1, FALSE).ret = NoContent
    /\ getCacheStats(metaStore, clock + 1) = [count |-> 0, size |-> 0]

\* C17: a cacheContent call whose content is larger than MAX_CHAPTER_SIZE
\* returns false, leaves the stored entries and the stored metadata as they
\* were and removes nothing.
C17_OversizedContentChangesNothing ==
  [][(lastOp'.name = "cacheContent" /\ clock' = clock + 1
        /\ BlobSize(lastOp'.content) > MAX_CHAPTER_SIZE) =>
       (~lastOp'.ok /\ store' = store /\ metaStore' = metaStore
          /\ lastOp'.removed = << >> /\ lastOp'.cleaned = << >>)]_vars

\* C17 witness: an oversized content was refused by a cache so full that a
\* content of the largest size allowed would have set off the cleanup.
C17_OversizedRefusedByFullCache ==
  /\ lastOp.name = "cacheContent" /\ lastOp.content = ContentOver /\ ~lastOp.ok
  /\ NeedsCleanup(getMeta(metaStore, clock), BlobSize(ContentMax))
  /\ Cardinality(DOMAIN store) = NumFill

\* C18: cacheContent returns a truth value whatever the entry write does.
\* When the write is reached and answers with a quota error, entries have
\* been evicted until those left in storage take at most 30% of the cap, the
\* call returns true with the entry stored if the second write succeeds and
\* false with the entry not written if it throws; after any other exception
\* of the write the call returns false.
C18_WriteFailuresAreReturned ==
  [][(lastOp'.name = "cacheContent" /\ clock' = clock + 1) =>
       LET size == BlobSize(lastOp'.content)
           key == getCacheKey(lastOp'.url)
           reached ==
             /\ size <= MAX_CHAPTER_SIZE
             /\ ThresholdCleanup(store, getMeta(metaStore, clock'), size, clock').meta.totalSize
                  + size <= MAX_CACHE_SIZE
           written == key \in DOMAIN store' /\ store'[key].cachedAt = clock'
       IN /\ lastOp'.ok \in BOOLEAN
          /\ ~reached => ~lastOp'.ok
          /\ (reached /\ lastOp'.fault = "ok") => (lastOp'.ok /\ written)
          /\ (reached /\ lastOp'.fault = "error") => (~lastOp'.ok /\ ~written)
          /\ (reached /\ lastOp'.fault = "quota_retry_ok") => (lastOp'.ok /\ written)
          /\ (reached /\ lastOp'.fault = "quota_retry_fail") => (~lastOp'.ok /\ ~written)
          /\ (reached /\ lastOp'.fault \in {"quota_retry_ok", "quota_retry_fail"}) =>
               /\ lastOp'.cleaned # << >>
               /\ StoredSize(MapDrop(store', {key}))
                    <= Tenths(MAX_CACHE_SIZE, QUOTA_TARGET_TENTHS)]_vars

(***************************************************************************)
(* Properties of the rule executors.                                       *)
(***************************************************************************)
\* what the k-th sub-rule of the rule of the run answers for the input of the run
SubResult(k) == LeafAnswer(ruleRun.rule.subRules[k], ruleRun.element, NoContext)

\* C19: a run of a rule with combinator "or" on an input calls the sub-rules
\* in their order with that input and the context of the run, up to the
\* first one whose result is a non-empty string or array, and returns that
\* result; it calls every sub-rule and returns null when none has such a
\* result.
C19_OrReturnsFirstNonEmpty ==
  (ruleRun.state = "done" /\ ruleRun.rule.combinator = "or" /\ ~Falsy(ruleRun.element)) =>
    LET n == Len(ruleRun.rule.subRules)
        hits == {k \in 1..n : /\ SubResult(k).kind \in {"string", "array"}
                              /\ SubResult(k) # Str("")
                              /\ SubResult(k) # [kind |-> "array", items |-> << >>]}
        first == IF hits = {} THEN n ELSE CHOOSE k \in hits : \A j \in hits : k <= j
    IN /\ ruleRun.result = IF hits = {} THEN NullResult ELSE SubResult(first)
       /\ ruleRun.log = [k \in 1..first |->
                           SubRuleCall(ruleRun.rule.subRules[k], ruleRun.element, NoContext)]
                          \o << >>

\* C19 witness: the first sub-rule gave the empty string, the second a
\* string, and the third was not called.
C19_SecondSubRuleAnswered ==
  /\ ruleRun.state = "done" /\ ruleRun.rule.combinator = "or"
  /\ Len(ruleRun.rule.subRules) = 3 /\ ruleRun.element = Element
  /\ SubResult(1) = Str("") /\ SubResult(2) = Str("y")
  /\ ruleRun.result = Str("y") /\ Len(ruleRun.log) = 2

\* C20: a run of executeEsoRule on a rule with combinator "and" calls the
\* first sub-rule with the input of the run and each later one with the
\* result of the one before it, bound to result and lastResult in the
\* context; it stops after the first sub-rule whose result is falsy and then
\* returns null, and otherwise returns the result of the last sub-rule.
C20_AndIsAPipeline ==
  (/\ ruleRun.state = "done" /\ ruleRun.executor = "executeEsoRule"
   /\ ruleRun.rule.combinator = "and" /\ ~Falsy(ruleRun.element)) =>
    LET n == Len(ruleRun.rule.subRules)
        log == ruleRun.log
        out == [i \in 1..Len(log) |-> LeafAnswer(log[i].rule, log[i].element, log[i].context)]
    IN /\ Len(log) \in 1..n
       /\ log[1].element = ruleRun.element
       /\ \A i \in 1..Len(log) : log[i].rule = ruleRun.rule.subRules[i]
       /\ \A i \in 2..Len(log) :
            /\ ~Falsy(out[i - 1])
            /\ log[i].element = out[i - 1]
            /\ log[i].context.result = out[i - 1]
            /\ log[i].context.lastResult = out[i - 1]
       /\ Len(log) < n => Falsy(out[Len(log)])
       /\ ruleRun.result = IF Falsy(out[Len(log)]) THEN NullResult ELSE out[Len(log)]

(***************************************************************************)
(* Properties of the rule parsers' text functions.                         *)
(***************************************************************************)
\* the position a bound or an index names in a list of n: a negative number
\* counts from the end, a missing bound is `otherwise`
PositionOf(text, otherwise, n) ==
  IF text = << >> THEN otherwise
  ELSE IF parseInt(text) < 0 THEN n + parseInt(text) ELSE parseInt(text)

\* position p is met when stepping by s from a towards b, b excluded
SteppedOn(p, a, b, s) ==
  IF s > 0 THEN p >= a /\ p < b /\ (p - a) % s = 0
  ELSE IF s < 0 THEN p <= a /\ p > b /\ (a - p) % (0 - s) = 0
  ELSE FALSE

Reversed(seq) == [k \in 1..Len(seq) |-> seq[Len(seq) + 1 - k]]

\* the selection the index sublanguage describes, for a range a:b[:s]
RangeSelection(elements, indexExpr) ==
  LET n == Len(elements)
      parts == indexExpr.parts
      a == PositionOf(parts[1], 0, n)
      b == PositionOf(parts[2], n, n)
      s == IF Len(parts) < 3 THEN 1 ELSE PositionOf(parts[3], 1, 0)
      forward == SelectSeq(elements, LAMBDA el : SteppedOn(el.node, a, b, s) = ~indexExpr.exclude)
  IN IF s < 0 /\ ~indexExpr.exclude THEN Reversed(forward) ELSE forward

\* the selection the index sublanguage describes, for a list i,j,k
ListSelection(elements, indexExpr) ==
  LET n == Len(elements)
      listed == [k \in 1..Len(indexExpr.parts) |-> PositionOf(indexExpr.parts[k], 0, n)]
      there == SelectSeq(listed, LAMBDA p : p >= 0 /\ p < n)
  IN IF indexExpr.exclude
     THEN SelectSeq(elements, LAMBDA el : \A k \in 1..Len(listed) : listed[k] # el.node)
     ELSE [k \in 1..Len(there) |-> [node |-> there[k]]]

\* C21: for a match list of length n, applyIndexSelector returns the
\* selection the index sublanguage describes: .N is the element at N, counted
\* from the end when negative, or nothing when out of range; [i,j,k] the
\* elements at those positions in the listed order; [!i,j] all the others in
\* their order; [a:b] the positions a..b-1, negative bounds relative to n, a
\* missing bound 0 or n; [a:b:s] every s-th position from a, and for a
\* negative s from a down to b, b excluded.
C21_IndexSelectionIsTheReference ==
  (parseRun.fn = "applyIndexSelector" /\ parseRun.state = "done") =>
    LET elements == parseRun.args[1]
        indexStr == parseRun.args[2]
        arrayIndex == parseRun.args[3]
    IN IF arrayIndex # Absent
       THEN IF arrayIndex.separator = ","
            THEN parseRun.result = ListSelection(elements, arrayIndex)
            ELSE (Len(arrayIndex.parts) = 3 => arrayIndex.parts[3] # << 48 >>)
                   => parseRun.result = RangeSelection(elements, arrayIndex)
       ELSE IF indexStr # Absent
       THEN LET p == PositionOf(indexStr.text, 0, Len(elements))
            IN parseRun.result = IF p >= 0 /\ p < Len(elements) THEN << [node |-> p] >> ELSE << >>
       ELSE parseRun.result = elements

\* the selection of a range a:b[:s] when both bounds, taken relative to n,
\* are brought into 0..n before the walk
RangeSelectionWithin(elements, indexExpr) ==
  LET n == Len(elements)
      parts == indexExpr.parts
      within(v) == IF v < 0 THEN 0 ELSE IF v > n THEN n ELSE v
      a == within(PositionOf(parts[1], 0, n))
      b == within(PositionOf(parts[2], n, n))
      s == IF Len(parts) < 3 THEN 1 ELSE PositionOf(parts[3], 1, 0)
      forward == SelectSeq(elements, LAMBDA el : SteppedOn(el.node, a, b, s) = ~indexExpr.exclude)
  IN IF s < 0 /\ ~indexExpr.exclude THEN Reversed(forward) ELSE forward

\* C21 as amended: for a match list of length n, applyIndexSelector returns
\* the selection the index sublanguage describes, where the bounds of a range
\* [a:b] or [a:b:s], once a negative one is taken relative to n and a missing
\* one is 0 or n, are brought into 0..n before the walk; a step of 0 selects
\* nothing.
C21_IndexSelectionWithinTheList ==
  (parseRun.fn = "applyIndexSelector" /\ parseRun.state = "done") =>
    LET elements == parseRun.args[1]
        indexStr == parseRun.args[2]
        arrayIndex == parseRun.args[3]
    IN IF arrayIndex # Absent
       THEN IF arrayIndex.separator = ","
            THEN parseRun.result = ListSelection(elements, arrayIndex)
            ELSE parseRun.result = RangeSelectionWithin(elements, arrayIndex)
       ELSE IF indexStr # Absent
       THEN LET p == PositionOf(indexStr.text, 0, Len(elements))
            IN parseRun.result = IF p >= 0 /\ p < Len(elements) THEN << [node |-> p] >> ELSE << >>
       ELSE parseRun.result = elements

\* C21 witness: a backward walk [a:b:s], s negative, whose end b lies before
\* the start of the list, returned elements
C21_BackwardWalkPastTheStart ==
  /\ parseRun.fn = "applyIndexSelector" /\ parseRun.state = "done"
  /\ parseRun.args[3] # Absent
  /\ parseRun.args[3].separator = ":" /\ ~parseRun.args[3].exclude
  /\ Len(parseRun.args[3].parts) = 3
  /\ PositionOf(parseRun.args[3].parts[3], 1, 0) < 0
  /\ PositionOf(parseRun.args[3].parts[2], 0, Len(parseRun.args[1])) < 0
  /\ Len(parseRun.result) > 1

\* the occurrence of `part` at position i lies in a {{ ... }} span: a "{{"
\* before it is not closed before i, and a "}}" follows
InScriptSpan(text, i, part) ==
  /\ \E o \in 1..(i - 2) :
       /\ HasAt(text, o, << 123, 123 >>)
       /\ \A c \in (o + 2)..(i - 2) : ~HasAt(text, c, << 125, 125 >>)
  /\ \E c \in (i + Len(part))..Len(text) : HasAt(text, c, << 125, 125 >>)

\* a combinator node has sub-rules, a leaf has no subRules property
RECURSIVE WellFormed(_)
WellFormed(node) ==
  IF "combinator" \in DOMAIN node
  THEN /\ Len(node.subRules) > 0
       /\ \A k \in 1..Len(node.subRules) : WellFormed(node.subRules[k])
  ELSE "subRules" \notin DOMAIN node

\* C22: the rule parsers make an OR combinator only of the "||" that lie
\* outside the {{ ... }} spans: a rule whose "||" all lie inside a script span
\* (and that holds no "&&") is parsed as one node, a script node by parseRule,
\* not as a combinator; and every combinator node has a non-empty subRules
\* list while leaf nodes carry none.
C22_OrSplitsOutsideScripts ==
  (parseRun.fn \in {"parseRule", "parseEsoRule"} /\ parseRun.state = "done") =>
    LET text == parseRun.args[1]
        bars == {i \in 1..Len(text) : HasAt(text, i, << 124, 124 >>)}
    IN /\ WellFormed(parseRun.result)
       /\ (/\ bars # {}
           /\ \A i \in bars : InScriptSpan(text, i, << 124, 124 >>)
           /\ ~Includes(text, << 38, 38 >>))
            => /\ "combinator" \notin DOMAIN parseRun.result
               /\ parseRun.fn = "parseRule" => parseRun.result.type = "js"

\* what is left of a text when every occurrence of a literal pattern is taken
\* out of it and the blanks at both ends are dropped
LeftOf(units, pattern) == Trim(JoinedBy(Split(units, pattern, 1, 1), << >>))

\* C23: applyRegex and applyEsoRegex, given a valid pattern and no
\* replacement, remove every match of the pattern from the value, trim what
\* is left and return null rather than the empty string when nothing is left;
\* with no pattern they return the value unchanged.
C23_RegexDeletesByDefault ==
  (/\ parseRun.fn \in {"applyRegex", "applyEsoRegex"} /\ parseRun.state = "done"
   /\ parseRun.args[1] # NullValue /\ parseRun.args[3] = Absent) =>
    LET value == parseRun.args[1]
        regex == parseRun.args[2]
    IN IF regex = Absent THEN parseRun.result = value
       ELSE (regex.text # << >> /\ ~RegExpThrows(regex.text)) =>
              parseRun.result = IF LeftOf(value.units, regex.text) = << >> THEN NullValue
                                ELSE Text(LeftOf(value.units, regex.text))

\* the URL part of the rule once the key is put in
UrlPartOf(run) ==
  IF run.args[2] = Absent THEN run.args[1].url
  ELSE IF run.fn = "parseUrlRule"
  THEN replaceKeyPlaceholders(run.args[1].url, run.args[2].text, encodeURIComponent(run.args[2].text))
  ELSE Interpolated(run.args[1].url, run.args[2], 1)

\* text without the slashes at its end (at its start)
UpToSlashes(text) ==
  SubSeq(text, 1, CHOOSE n \in 0..Len(text) :
                    /\ n > 0 => text[n] # 47
                    /\ \A k \in (n + 1)..Len(text) : text[k] = 47)

AfterSlashes(text) ==
  SubSeq(text, 1 + (CHOOSE n \in 0..Len(text) :
                      /\ n < Len(text) => text[n + 1] # 47
                      /\ \A k \in 1..n : text[k] = 47), Len(text))

IsAbsolute(url) == HasAt(url, 1, HttpText) \/ HasAt(url, 1, HttpsText)

\* C24: a URL part that starts with http:// or https:// is returned as it
\* is; any other, when a baseUrl is given, is resolved to the baseUrl without
\* its trailing slashes, one "/", and the path: the join has exactly one
\* slash and the result is absolute.
C24_JoinedWithOneSlash ==
  (parseRun.fn \in {"parseUrlRule", "parseEsoUrlRule"} /\ parseRun.state = "done") =>
    LET part == UrlPartOf(parseRun)
        baseUrl == parseRun.args[3]
    IN IF IsAbsolute(part) THEN parseRun.result.url = part
       ELSE (baseUrl # Absent /\ baseUrl.text # << >>) =>
              /\ parseRun.result.url = UpToSlashes(baseUrl.text) \o << 47 >> \o AfterSlashes(part)
              /\ IsAbsolute(parseRun.result.url)

\* C24 as amended: a URL part that starts with http:// or https:// is
\* returned as it is; any other, when a baseUrl is given, is resolved to the
\* baseUrl without its trailing slashes followed by the path, which gets a
\* "/" in front when it does not start with one: the join has at least one
\* slash, and more than one only when the URL part itself starts with more
\* than one; the result is absolute.
C24_JoinedWithASlash ==
  (parseRun.fn \in {"parseUrlRule", "parseEsoUrlRule"} /\ parseRun.state = "done") =>
    LET part == UrlPartOf(parseRun)
        baseUrl == parseRun.args[3]
    IN IF IsAbsolute(part) THEN parseRun.result.url = part
       ELSE (baseUrl # Absent /\ baseUrl.text # << >>) =>
              /\ parseRun.result.url
                   = UpToSlashes(baseUrl.text) \o (IF part # << >> /\ part[1] = 47 THEN part
                                                   ELSE << 47 >> \o part)
              /\ IsAbsolute(parseRun.result.url)

\* C24 witness: a relative URL part with the key in it was resolved on a
\* baseUrl that ends with two slashes
C24_ResolvedOnSlashedBase ==
  /\ parseRun.fn \in {"parseUrlRule", "parseEsoUrlRule"} /\ parseRun.state = "done"
  /\ parseRun.args[2] # Absent /\ parseRun.args[3] # Absent
  /\ parseRun.args[3].text = HttpText \o << 104, 47, 47 >>
  /\ Includes(parseRun.args[1].url, KeyPlaceholder)
  /\ parseRun.result.url = HttpText \o << 104, 47, 115, 37, 50, 70, 107 >>

(***************************************************************************)
(* Properties of the search.                                               *)
(***************************************************************************)
\* the hits of a page that give a name and a link without throwing, as the
\* search returns them
SurvivingHits(elements) ==
  LET good == SelectSeq(elements, LAMBDA e : /\ "throws" \notin DOMAIN e
                                             /\ e.url # Unresolvable
                                             /\ e.name # "" /\ e.url # NoUrl)
  IN [i \in 1..Len(good) |->
        [name |-> good[i].name,
         url |-> IF "relative" \in DOMAIN good[i].url THEN good[i].url.relative ELSE good[i].url]]

FetchedSearch(call) ==
  /\ call.op = "searchBooks"
  /\ call.source.searchUrl /\ call.source.rule = "css"
  /\ LastResponse(call).success

\* C25: searchBooks does not fail because of one hit: a hit without name and
\* link, or whose extraction or URL resolution throws, is skipped and the
\* other hits are returned in page order; a page without surviving hit gives
\* the empty list, not an error.
C25_BadHitsAreSkipped ==
  FetchedSearch(svcCall) =>
    /\ ~svcCall.rejected
    /\ svcCall.result = SurvivingHits(LastResponse(svcCall).list)

\* C25 witness: a page whose first hit throws and whose second hit is good
\* was searched, and the second hit returned
C25_HitAfterThrowingHit ==
  /\ FetchedSearch(svcCall)
  /\ Len(LastResponse(svcCall).list) = MaxElements
  /\ "throws" \in DOMAIN LastResponse(svcCall).list[1]
  /\ Len(svcCall.result) = 1

(***************************************************************************)
(* Properties of the cleanup and of the cache metadata.                    *)
(***************************************************************************)
\* C26: in every cacheContent call for which the tracked total size plus the
\* size of the new entry is above 80% of the cap, a cleanup runs before the
\* entry is written, and it ends with a tracked total size, the new entry not
\* counted, of at most 50% of the cap.
C26_CleanupReachesHalfTheCap ==
  (/\ lastOp.name = "cacheContent"
   /\ BlobSize(lastOp.content) <= MAX_CHAPTER_SIZE
   /\ (lastOp.tracked + BlobSize(lastOp.content)) * 10 > MAX_CACHE_SIZE * CLEANUP_THRESHOLD_TENTHS)
  => /\ Len(lastOp.cleaned) > 0
     /\ lastOp.cleaned[1] * 10 <= MAX_CACHE_SIZE * CLEANUP_TARGET_TENTHS


\* the chapter keys the metadata lists
ListedKeys(ms) == IF ms = << >> THEN {} ELSE {getCacheKey(ms[1].urls[i]) : i \in 1..Len(ms[1].urls)}

TrackedSize(ms) == IF ms = << >> THEN 0 ELSE ms[1].totalSize

\* C27: after every cacheContent, getCachedContent or clearAllCache call,
\* every url of meta.urls has its entry in storage, every chapter entry in
\* storage is the entry of a url of meta.urls, and meta.totalSize is the sum
\* of the sizes of the entries in storage.
C27_MetadataMatchesStorage ==
  lastOp.name \in {"cacheContent", "getCachedContent", "clearAllCache"} =>
    /\ ListedKeys(metaStore) = DOMAIN store
    /\ TrackedSize(metaStore) = StoredSize(store)


(***************************************************************************)
(* Properties of the shelf, of the requests to the extension and of the    *)
(* fallback.                                                               *)
(***************************************************************************)
\* C28: the shelf never holds two entries with the same bookInfo.bookUrl,
\* whatever addToShelf, updateProgress and replaceBookInfo calls the reading
\* view has made, a switch to an alternative that is already on the shelf
\* included.
C28_ShelfUrlsAreUnique ==
  \A i, j \in 1..Len(shelf) :
    shelf[i].bookInfo.bookUrl = shelf[j].bookInfo.bookUrl => i = j


\* what the first thing a request heard, its response or its timeout, makes
\* of its promise
FirstSettles(event) ==
  IF event.event = "timeout" THEN [call |-> "reject", with |-> TIMEOUT_ERROR]
  ELSE IF "payload" \notin DOMAIN event.message
  THEN [call |-> "reject", with |-> UNKNOWN_ERROR]
  ELSE IF event.message.payload.success
  THEN [call |-> "resolve", with |-> event.message.payload.data]
  ELSE IF "error" \in DOMAIN event.message.payload
  THEN [call |-> "reject", with |-> event.message.payload.error]
  ELSE [call |-> "reject", with |-> UNKNOWN_ERROR]

PendingTimers(b, requestId) == {k \in DOMAIN b.timers : b.timers[k].requestId = requestId}

\* C29: the promise of every request is settled exactly once, by the first of
\* its response and its timeout: until one of them occurs the request is in
\* pendingRequests with its timer pending and its promise untouched; from
\* then on the promise has been settled once, as that first event says, the
\* request is not in pendingRequests and it has no pending timer, whatever
\* responses follow; a timeout never follows a response; and pendingRequests
\* and the pending timers hold nothing but the requests that are not settled.
C29_SettledOnceByTheFirstEvent ==
  /\ \A p \in 1..Len(bridge.promises) :
       LET promise == bridge.promises[p] IN
       IF promise.heard = << >>
       THEN /\ promise.calls = << >>
            /\ promise.requestId \in DOMAIN bridge.pendingRequests
            /\ bridge.pendingRequests[promise.requestId].promise = p
            /\ PendingTimers(bridge, promise.requestId)
                 = {bridge.pendingRequests[promise.requestId].timer}
       ELSE /\ promise.calls = << FirstSettles(promise.heard[1]) >>
            /\ promise.requestId \notin DOMAIN bridge.pendingRequests
            /\ PendingTimers(bridge, promise.requestId) = {}
            /\ \A k \in 2..Len(promise.heard) : promise.heard[k].event = "response"
  /\ \A p, q \in 1..Len(bridge.promises) :
       bridge.promises[p].requestId = bridge.promises[q].requestId => p = q
  /\ \A requestId \in DOMAIN bridge.pendingRequests :
       \E p \in 1..Len(bridge.promises) : bridge.promises[p].requestId = requestId
  /\ \A timer \in DOMAIN bridge.timers :
       bridge.timers[timer].requestId \in DOMAIN bridge.pendingRequests

\* C29 witness: two requests are settled, one by its timeout, after which its
\* response came, the other by its response, which came twice.
C29_LateAndDuplicateResponses ==
  /\ Len(bridge.promises) = 2
  /\ \E p, q \in 1..2 :
       /\ Len(bridge.promises[p].heard) = 2
       /\ bridge.promises[p].heard[1].event = "timeout"
       /\ bridge.promises[p].heard[2].event = "response"
       /\ Len(bridge.promises[q].heard) = 2
       /\ bridge.promises[q].heard[1].event = "response"
       /\ bridge.promises[q].heard[2].event = "response"
       /\ Len(bridge.promises[q].calls) = 1


\* the task of the call t after a step: the empty set when the call has ended
After(t, later) == {u \in later : u.id = t.id}

\* C30: a readChapter call ends after at most one pass over the alternatives:
\* getContent is awaited once with the fallback allowed and, after a failure,
\* at most once more on an alternative with the fallback disabled, whose
\* answer ends the call; getChapters is asked of one alternative after the
\* other, never twice of the same one and never of the source the read failed
\* on, even when that source has an entry among the alternatives; and when
\* the call ends, loading is false.
C30_ReadEndsAfterOnePass ==
  [][\A t \in tasks :
       /\ After(t, tasks') = {} => ~view'.loading
       /\ \A u \in After(t, tasks') \ {t} :
            /\ t.pc = "content" =>
                 /\ t.allowFallback
                 /\ t.tried = << >>
                 /\ u.pc = "alternative"
            /\ u.pc = "alternative" =>
                 /\ u.tried = Append(t.tried, u.source)
                 /\ \A k \in 1..Len(t.tried) : t.tried[k] # u.source
                 /\ u.source # u.originalBook.sourceId
            /\ t.pc = "alternative" =>
                 /\ u.pc \in {"alternative", "content"}
                 /\ u.pc = "content" => ~u.allowFallback]_vars

\* C30 witness: a read of book A failed on S1, whose own entry is among the
\* alternatives; the retry on the alternative S3 failed too, and the call has
\* ended there with the book on S3 and loading false.
C30_RetryFailedAndCallEnded ==
  /\ lastFallback.original.sourceId = "S1"
  /\ \E k \in 1..Len(lastFallback.original.alternativeSources) :
       lastFallback.original.alternativeSources[k].sourceId = "S1"
  /\ ~lastFallback.success
  /\ ~lastFallback.overlapped
  /\ lastFallback.book.sourceId = "S3"
  /\ tasks = {}
  /\ ~view.loading

====
